---- MODULE Spec2Model ----
(***************************************************************************)
(* State-machine model of the intraday trading bot (afadxb/bot2.1):        *)
(* the TradeManager position book (intraday/exec/trade_manager.py), the    *)
(* OrderClient it submits to (intraday/exec/order_client.py), the tables   *)
(* it persists to (intraday/storage/db.py, schema.py) and the APScheduler  *)
(* jobs that drive it in daemon mode (intraday/scheduler.py).              *)
(*                                                                         *)
(* Numbers.  Python floats are modelled as exact rationals.  A price is an *)
(* integer number of ticks, Dollar ticks to the dollar; Dollar is chosen   *)
(* so that the 0.1% slippage of the OrderClient and the scale/target       *)
(* percentages of the settings are exact on whole-dollar prices.  A        *)
(* quantity or a pnl is a dyadic rational [n, e] = n / 2^e, so that        *)
(* halving a quantity is exact however often it is done.                   *)
(***************************************************************************)
EXTENDS Integers, Sequences, FiniteSets, TLC

VARIABLES
    simulation,     \* settings.is_simulation, fixed at start-up
    this_second,    \* the client_order_ids inserted in the current wall-clock second
    positions,      \* TradeManager.positions: dict symbol -> ManagedPosition
    db_positions,   \* table positions: symbol -> row
    orders,         \* table orders, in id order (id = index)
    fills,          \* table fills, in id order
    trade_journal,  \* table trade_journal, in id order (id = index)
    call,           \* the TradeManager call made last: its name and what it read
    submitted,      \* the orders that call handed to the Order Gateway, in order
    raised,         \* the exception that call raised to its caller, or "none"
    trade_ids,      \* the list execute returned (<<>> for the other calls)
    faults,         \* the orders the Order Gateway has not filled so far
    wakeups,        \* daemon mode: the times the scheduler has woken up
    jobs,           \* daemon mode: where each scheduled job is, or "idle"
    locals,         \* daemon mode: what a job's execute holds between a fill and its writes
    cycle,          \* what the last run_cycle evaluated, ranked and wrote to table signals
    result          \* what the last call of a pure function returned

vars == <<simulation, this_second, positions, db_positions, orders, fills,
          trade_journal, call, submitted, raised, trade_ids, faults, wakeups, jobs, locals, cycle, result>>

----------------------------------------------------------------------------
(* Bounds of the model *)

Symbols == {"A", "B"}

\* entries (journal rows) a behaviour may open
MaxTrades == 2

\* orders an Order Gateway other than the OrderClient may reject or raise on
MaxFaults == 1

\* daemon mode: the wakeups of the scheduler in a behaviour, one every five
\* minutes, and the wakeup at which the clock reaches flatten_et
MaxWakeups == 3
FlattenWakeup == 3

\* the bars of one call of the feed, and the timestamps they may carry
MaxBars == 3
\* the news items of one analyze call
MaxNews == 2
\* settings.top_k_execute (20 by default), small enough for two symbols to be cut
top_k_execute == 1

\* one dollar in ticks: 1000 (slippage 0.001) x 25 (4% and 8% of a fill)
Dollar == 1000 * 25

\* Latest closes, ATRs and slow EMAs a feature row of a symbol may carry, in
\* dollars.  An entry at 100 with ATR 1 has its stop at 98.5, its scale target
\* at 104.104 and its final target at 108.108.  Entries are made at 100; after
\* its entry symbol A moves, and symbol B stays at 100 and is there to be held
\* beside A.
EntryLevels(s) == {100}
PriceLevels(s) == IF s = "A" THEN {100, 105, 109} ELSE {100}
AtrLevels(s) == {1}
EmaLevels(s) == IF s = "A" THEN {97, 109} ELSE {97}

----------------------------------------------------------------------------
(* Program constants *)

account_equity == 100000
risk_pct_per_trade == 1
\* atr_mult = 1.5, in hundredths
atr_mult_x100 == 150
scale1_pct == 4
target_pct == 8
\* OrderClient slippage 0.001, in thousandths
slippage_x1000 == 1
\* the 0.01 floor of a stop and of the risk per share, in hundredths of a dollar
floor_x100 == 1

\* the intervals of the two run_cycle jobs, in minutes
cycle_5m_minutes == 5
cycle_15m_minutes == 15

PriceFloor == (floor_x100 * Dollar) \div 100

----------------------------------------------------------------------------
(* Dyadic rationals n / 2^e, kept normalised (n odd or e = 0) *)

RECURSIVE Norm(_)
Norm(q) ==
    IF q.e > 0 /\ q.n % 2 = 0 THEN Norm([n |-> q.n \div 2, e |-> q.e - 1]) ELSE q

RECURSIVE Pow2(_)
Pow2(k) == IF k = 0 THEN 1 ELSE 2 * Pow2(k - 1)

Whole(n) == [n |-> n, e |-> 0]

MaxOf(a, b) == IF a >= b THEN a ELSE b

\* q / 2
Half(q) == Norm([n |-> q.n, e |-> q.e + 1])

\* a - b
Minus(a, b) ==
    LET e == MaxOf(a.e, b.e)
    IN  Norm([n |-> a.n * Pow2(e - a.e) - b.n * Pow2(e - b.e), e |-> e])

\* k * q for an integer k
Times(k, q) == Norm([n |-> k * q.n, e |-> q.e])

\* Python round() of the rational n / d (n >= 0, d > 0): half to even
Round(n, d) ==
    LET q == n \div d
        r == n % d
    IN  IF 2 * r < d THEN q
        ELSE IF 2 * r > d THEN q + 1
        ELSE IF q % 2 = 0 THEN q ELSE q + 1

----------------------------------------------------------------------------
(* Dicts and tables keyed by symbol: functions on the set of present keys *)

EmptyDict == [k \in {} |-> 0]

Put(d, k, v) == [x \in DOMAIN d \cup {k} |-> IF x = k THEN v ELSE d[x]]

Drop(d, k) == [x \in DOMAIN d \ {k} |-> d[x]]

----------------------------------------------------------------------------
(* Inputs *)

\* The (decision, gate) pairs a RankedSignal handed to execute may carry.  The
\* first three are pairs rank_candidates produces; execute is a public method
\* and takes any signal, so enter_long with gate VETO is an input too.
SignalKinds(s) ==
    IF s = "A"
    THEN { <<"enter_long", "PASS">>, <<"observe", "PASS">>, <<"skip_ai_veto", "VETO">>,
           <<"enter_long", "VETO">> }
    ELSE { <<"enter_long", "PASS">> }

Signal(s, k) == [symbol |-> s, decision |-> k[1], gate |-> k[2]]

Signals == { Signal(s, k) : s \in Symbols, k \in UNION { SignalKinds(t) : t \in Symbols } }

\* ranked lists: at most one signal per symbol, in either order
RankedLists ==
    LET Of == { g \in Signals : <<g.decision, g.gate>> \in SignalKinds(g.symbol) }
    IN  {<<>>}
        \cup { <<g>> : g \in Of }
        \cup { r \in Of \X Of : r[1].symbol # r[2].symbol }

\* A feature row is a dict; the handlers read the keys c, atr and ema_slow,
\* each with a default.  execute reads c and atr, manage_open_positions reads
\* c and ema_slow, flatten_all reads c.
ExecuteRows(s) ==
    { [c |-> p * Dollar, atr |-> a * Dollar] : p \in EntryLevels(s), a \in AtrLevels(s) }
ManageRows(s) ==
    { [c |-> p * Dollar, ema_slow |-> m * Dollar] : p \in PriceLevels(s), m \in EmaLevels(s) }
FlattenRows(s) == { [c |-> p * Dollar] : p \in PriceLevels(s) }

\* rows for sizing: the entry rows and one at 5000 with an ATR of 2000, whose
\* stop is 3000 below the price, so that the 1000 at risk buy a third of a share
SizedRows(s) == ExecuteRows(s) \cup {[c |-> 5000 * Dollar, atr |-> 2000 * Dollar]}

\* feature maps: every dict from some of the symbols S to a row of the symbol
Rows(op, s) ==
    IF op = "execute" THEN ExecuteRows(s)
    ELSE IF op = "size" THEN SizedRows(s)
    ELSE IF op = "manage" THEN ManageRows(s)
    ELSE FlattenRows(s)

FeatureMaps(S, op) ==
    UNION { { f \in [T -> UNION { Rows(op, s) : s \in T }] :
                  \A s \in T : f[s] \in Rows(op, s) } :
            T \in SUBSET S }

\* row.get(key, default)
Get(row, key, default) == IF key \in DOMAIN row THEN row[key] ELSE default

\* What the Order Gateway answers to one submit_order call.  The OrderClient
\* of the repository fills every order in simulation and raises otherwise; the
\* TradeManager is written against any gateway status.
OrderClientAnswers(sim) == IF sim THEN {"FILLED"} ELSE {"RAISE"}
GatewayAnswers == {"FILLED", "REJECTED", "RAISE"}

----------------------------------------------------------------------------
(* OrderClient.submit_order *)

\* fill_price = limit_price * (1 + slippage)
FillPrice(side, limit_price) ==
    IF side = "BUY"
    THEN limit_price + (limit_price * slippage_x1000) \div 1000
    ELSE limit_price - (limit_price * slippage_x1000) \div 1000

\* The call as the gateway saw it, with its answer.
Submission(symbol, side, qty, limit_price, answer) ==
    [symbol |-> symbol, side |-> side, qty |-> qty, limit_price |-> limit_price,
     status |-> answer, avg_fill_price |-> FillPrice(side, limit_price)]

\* tm after submit_order: the call is logged; a raising gateway raises
submit_order(tm, symbol, side, qty, limit_price, answer) ==
    [tm EXCEPT !.submitted = Append(@, Submission(symbol, side, qty, limit_price, answer)),
               !.raised = IF answer = "RAISE" THEN "RuntimeError" ELSE @]

----------------------------------------------------------------------------
(* Database *)

\* SQL NULL in a numeric column, a text column and the pnl column
NULL == 0 - 1
NullText == "NULL"
NullPnl == [n |-> 0, e |-> NULL]

\* orders.client_order_id is UNIQUE: a duplicate makes INSERT raise.  The ids
\* are "<symbol>-<ts>" for an entry and "<symbol>-close-<ts>" for a close, ts
\* the epoch second of the call.  The clock never goes back, so a new id can
\* only equal one inserted in the current second: an id is modelled as
\* <<symbol, kind>>, and this_second holds the ids of the current second.
insert_order(tm, order) ==
    IF order.client_order_id \in tm.this_second
    THEN [tm EXCEPT !.raised = "IntegrityError"]
    ELSE [tm EXCEPT !.orders = Append(@, order),
                    !.this_second = @ \cup {order.client_order_id}]

insert_fill(tm, fill) == [tm EXCEPT !.fills = Append(@, fill)]

\* the row written for a Position: symbol key, avg_price, qty and meta_json
PositionRow(position) ==
    [avg_price |-> position.avg_price, qty |-> position.qty,
     stop_px |-> position.stop_px]

upsert_position(tm, symbol, position) ==
    [tm EXCEPT !.db_positions = Put(@, symbol, PositionRow(position)),
               !.writes = @ + 1]

delete_position(tm, symbol) ==
    [tm EXCEPT !.db_positions = Drop(@, symbol)]

insert_trade_journal(tm, entry) == [tm EXCEPT !.trade_journal = Append(@, entry)]

update_trade_journal(tm, entry_id, exit_price, qty, pnl, reason_close) ==
    [tm EXCEPT !.trade_journal[entry_id] =
        [@ EXCEPT !.closed = TRUE, !.exit_price = exit_price, !.qty = qty,
                  !.pnl = pnl, !.reason_close = reason_close, !.updates = @ + 1]]

----------------------------------------------------------------------------
(* TradeManager *)

\* a sizing that never goes below one share
AtLeastOne(price, stop_px) ==
    MaxOf(Round((account_equity \div 100) * risk_pct_per_trade * Dollar,
                MaxOf(price - stop_px, PriceFloor)), 1)

\* _position_size: round(risk_amount / max(price - stop_px, 0.01))
position_size(price, stop_px) ==
    LET risk_amount == (account_equity \div 100) * risk_pct_per_trade * Dollar
        risk_per_share == MaxOf(price - stop_px, PriceFloor)
    IN  Round(risk_amount, risk_per_share)

\* an entry whose stop is its price
StopAtPrice(price, atr_value) == price

\* the stop of a new entry: max(price - atr * atr_mult, 0.01).  An ATR is a
\* whole number of dollars or 2% of one, so a multiple of 100 ticks: dividing
\* first is exact and keeps an ATR of thousands of dollars within 32 bits
EntryStop(price, atr_value) ==
    MaxOf(price - (atr_value \div 100) * atr_mult_x100, PriceFloor)

\* targets set below the fill price
TargetBelow(fill_price, pct) == fill_price - (fill_price * pct) \div 100

\* fill_price * (1 + pct / 100)
Target(fill_price, pct) == fill_price + (fill_price * pct) \div 100

\* list(self.positions.items()): a dict iterates in insertion order, and a
\* position is inserted right after its journal row, so in trade_id order
RECURSIVE Items(_)
Items(book) ==
    IF DOMAIN book = {} THEN <<>>
    ELSE LET s == CHOOSE x \in DOMAIN book :
                      \A y \in DOMAIN book : book[x].trade_id <= book[y].trade_id
         IN  <<s>> \o Items(Drop(book, s))

\* a _close_position that sells before it looks for the position
NotManagedSells(tm, symbol, price, answer) ==
    submit_order(tm, symbol, "SELL", Whole(0), price, answer)

\* "if not managed: return" (lines 178-179)
NotManaged(tm, symbol, price, answer) == tm

\* _close_position(symbol, price, reason)
close_position(tm, symbol, price, reason, answer) ==
    IF symbol \notin DOMAIN tm.positions THEN NotManaged(tm, symbol, price, answer)
    ELSE
    LET managed == tm.positions[symbol]
        popped == [tm EXCEPT !.positions = Drop(@, symbol)]
        qty == managed.qty
        sent == submit_order(popped, symbol, "SELL", qty, price, answer)
        order == [client_order_id |-> <<symbol, "close">>, symbol |-> symbol,
                  side |-> "sell", qty |-> qty, stop_price |-> NULL,
                  status |-> "filled", reason |-> reason]
        ordered == insert_order(sent, order)
        filled == insert_fill(ordered, [order_id |-> Len(ordered.orders),
                                         fill_price |-> price, fill_qty |-> qty])
        pnl == Times(price - managed.avg_price, qty)
        journalled == update_trade_journal(filled, managed.trade_id, price, qty, pnl, reason)
    IN  IF sent.raised # "none" THEN sent
        ELSE IF ordered.raised # "none" THEN ordered
        ELSE delete_position(journalled, symbol)

\* an execute that takes no symbol for held
NeverHeld(tm, symbol) == FALSE

\* "if symbol in self.positions" (line 41)
Held(tm, symbol) == symbol \in DOMAIN tm.positions

\* an execute that takes every answer of the gateway for a fill
AnyStatus(status) == TRUE

\* the test execute makes of the gateway's answer (line 55)
Filled(status) == status = "FILLED"

\* the body of execute's loop for one signal, from the fill on (lines 58-122)
Enter(tm, signal, price, stop_px, qty) ==
    LET symbol == signal.symbol
        fill_price == FillPrice("BUY", price)
        order == [client_order_id |-> <<symbol, "entry">>, symbol |-> symbol,
                  side |-> "buy", qty |-> Whole(qty), stop_price |-> stop_px,
                  status |-> "filled", reason |-> NullText]
        ordered == insert_order(tm, order)
        filled == insert_fill(ordered, [order_id |-> Len(ordered.orders),
                                         fill_price |-> fill_price, fill_qty |-> Whole(qty)])
        trade_id == Len(tm.trade_journal) + 1
        position == [trade_id |-> trade_id, avg_price |-> fill_price, qty |-> Whole(qty),
                     stop_px |-> stop_px,
                     scale_target |-> Target(fill_price, scale1_pct),
                     final_target |-> Target(fill_price, target_pct),
                     scaled |-> FALSE]
        stored == upsert_position(filled, symbol, position)
        entry == [symbol |-> symbol, closed |-> FALSE,
                  entry_price |-> fill_price, exit_price |-> NULL, qty |-> Whole(qty),
                  pnl |-> NullPnl, reason_close |-> NullText, updates |-> 0]
        journalled == insert_trade_journal(stored, entry)
    IN  IF ordered.raised # "none" THEN ordered
        ELSE [journalled EXCEPT !.positions = Put(@, symbol, position),
                                !.trade_ids = Append(@, trade_id)]

\* The body of execute's loop for one signal up to the gateway's answer (lines
\* 39-56).  After a fill, pending holds the locals the rest of the body uses.
ExecuteTests(tm, signal, features, answers) ==
    LET symbol == signal.symbol
        seen == [decision |-> signal.decision, gate |-> signal.gate]
        looked == [tm EXCEPT !.read = Put(@, symbol, seen)]
    IN  IF signal.decision # "enter_long" THEN looked
        ELSE IF Held(tm, symbol) THEN looked
        ELSE IF symbol \notin DOMAIN features THEN looked
        ELSE
        LET row == features[symbol]
            price == Get(row, "c", 0)
            atr_value == Get(row, "atr", (price * 2) \div 100)
            stop_px == EntryStop(price, atr_value)
            qty == position_size(price, stop_px)
            priced == [tm EXCEPT !.read = Put(@, symbol,
                           seen @@ [c |-> price, atr |-> atr_value])]
            sent == submit_order(priced, symbol, "BUY", Whole(qty), price, answers[symbol])
        IN  IF qty <= 0 THEN priced
            ELSE IF sent.raised # "none" THEN sent
            ELSE IF ~Filled(answers[symbol]) THEN sent
            ELSE [sent EXCEPT !.pending = <<[signal |-> signal, price |-> price,
                                             stop_px |-> stop_px, qty |-> qty]>>]

\* the body of execute's loop for one signal (lines 39-122)
ExecuteSignal(tm, signal, features, answers) ==
    LET tested == ExecuteTests(tm, signal, features, answers)
        local == tested.pending[1]
    IN  IF tested.pending = <<>> THEN tested
        ELSE Enter([tested EXCEPT !.pending = <<>>], local.signal, local.price,
                   local.stop_px, local.qty)

\* execute(ranked, features, run_date): an exception ends the loop
RECURSIVE execute(_, _, _, _)
execute(tm, ranked, features, answers) ==
    IF ranked = <<>> \/ tm.raised # "none" THEN tm
    ELSE execute(ExecuteSignal(tm, Head(ranked), features, answers),
                 Tail(ranked), features, answers)

\* a manage_open_positions that tests the final target before the scale target
ActionTargetFirst(managed, price, ema_trail) ==
    IF price <= managed.stop_px THEN "stop"
    ELSE IF price >= managed.final_target THEN "target"
    ELSE IF ~managed.scaled /\ price >= managed.scale_target THEN "scale"
    ELSE IF ema_trail > managed.stop_px THEN "trail"
    ELSE "none"

\* What manage_open_positions does to a position at a price and a trailing
\* EMA: the first of its four tests that matches (lines 138, 142, 155, 159)
Action(managed, price, ema_trail) ==
    IF price <= managed.stop_px THEN "stop"
    ELSE IF ~managed.scaled /\ price >= managed.scale_target THEN "scale"
    ELSE IF price >= managed.final_target THEN "target"
    ELSE IF ema_trail > managed.stop_px THEN "trail"
    ELSE "none"

\* a scale-out that leaves the scaled flag as it was
ScaleOutUnmarked(managed, ema_trail) ==
    [managed EXCEPT !.qty = Minus(@, Half(@)), !.stop_px = MaxOf(@, ema_trail)]

\* a scale-out that moves the stop to the trailing EMA, above or below
ScaleOutToEma(managed, ema_trail) ==
    [managed EXCEPT !.qty = Minus(@, Half(@)), !.scaled = TRUE, !.stop_px = ema_trail]

\* the position after the scale-out (lines 143, 145-147)
ScaleOut(managed, ema_trail) ==
    [managed EXCEPT !.qty = Minus(@, Half(@)), !.scaled = TRUE,
                    !.stop_px = MaxOf(@, ema_trail)]

\* the position after the trail raise (line 160)
Trail(managed, ema_trail) == [managed EXCEPT !.stop_px = ema_trail]

\* a manage_open_positions that takes a missing row for a price of 0 and
\* closes the position at its stop
SkippedCloses(tm, symbol, answers) ==
    close_position(tm, symbol, 0, "stop hit", answers[symbol])

\* "if not row: continue" (lines 127-128)
Skipped(tm, symbol, answers) == tm

\* The ManagedPosition the loop holds is the object the map held when the
\* items were listed: what the loop writes to it shows in the map for as long
\* as the map holds the same object.
Mutated(tm, symbol, managed) ==
    IF symbol \in DOMAIN tm.positions /\ tm.positions[symbol].trade_id = managed.trade_id
    THEN [tm EXCEPT !.positions[symbol] = managed]
    ELSE tm

\* the body of manage_open_positions' loop for one listed item (lines 127-163)
ManageItem(tm, symbol, managed, features, answers) ==
    IF symbol \notin DOMAIN features
    THEN Skipped([tm EXCEPT !.read = Put(@, symbol, EmptyDict)], symbol, answers)
    ELSE
    LET row == features[symbol]
        price == Get(row, "c", 0)
        ema_trail == Get(row, "ema_slow", price)
        looked == [tm EXCEPT !.read = Put(@, symbol, [c |-> price, ema_slow |-> ema_trail])]
        action == Action(managed, price, ema_trail)
        sent == submit_order(looked, symbol, "SELL", Half(managed.qty), price, answers[symbol])
        scaled == ScaleOut(managed, ema_trail)
        trailed == Trail(managed, ema_trail)
    IN  IF action = "stop"
        THEN close_position(looked, symbol, price, "stop hit", answers[symbol])
        ELSE IF action = "scale"
        THEN IF sent.raised # "none" THEN sent
             ELSE upsert_position(Mutated(sent, symbol, scaled), symbol, scaled)
        ELSE IF action = "target"
        THEN close_position(looked, symbol, price, "target hit", answers[symbol])
        ELSE IF action = "trail"
        THEN upsert_position(Mutated(looked, symbol, trailed), symbol, trailed)
        ELSE looked

\* the body of the loop when no other thread runs: the map still holds the item
ManageSymbol(tm, symbol, features, answers) ==
    ManageItem(tm, symbol, tm.positions[symbol], features, answers)

RECURSIVE ManageLoop(_, _, _, _)
ManageLoop(tm, items, features, answers) ==
    IF items = <<>> \/ tm.raised # "none" THEN tm
    ELSE ManageLoop(ManageSymbol(tm, Head(items), features, answers),
                    Tail(items), features, answers)

\* manage_open_positions(features)
manage_open_positions(tm, features, answers) ==
    ManageLoop(tm, Items(tm.positions), features, answers)

\* the body of flatten_all's loop for one held symbol (lines 167-168)
FlattenSymbol(tm, symbol, features, answers) ==
    LET row == IF symbol \in DOMAIN features THEN features[symbol] ELSE EmptyDict
        price == Get(row, "c", 0)
        looked == [tm EXCEPT !.read = Put(@, symbol,
                       IF symbol \in DOMAIN features THEN [c |-> price] ELSE EmptyDict)]
    IN  close_position(looked, symbol, price, "flatten", answers[symbol])

RECURSIVE FlattenLoop(_, _, _, _)
FlattenLoop(tm, keys, features, answers) ==
    IF keys = <<>> \/ tm.raised # "none" THEN tm
    ELSE FlattenLoop(FlattenSymbol(tm, Head(keys), features, answers),
                     Tail(keys), features, answers)

\* flatten_all(features)
flatten_all(tm, features, answers) ==
    FlattenLoop(tm, Items(tm.positions), features, answers)

----------------------------------------------------------------------------
(* The state machine: serialized calls on one TradeManager *)

\* the ids of the jobs start_scheduler adds
Jobs == {"cycle_5m", "cycle_15m", "flatten"}

\* the TradeManager and its store at the start of a call
Machine ==
    [positions |-> positions, db_positions |-> db_positions, orders |-> orders,
     this_second |-> this_second, fills |-> fills, trade_journal |-> trade_journal,
     submitted |-> <<>>, raised |-> "none", trade_ids |-> <<>>,
     read |-> EmptyDict, writes |-> 0, pending |-> <<>>]

\* the state a call leaves behind
NotFilled(log) == { i \in DOMAIN log : log[i].status # "FILLED" }

Leaves(tm, op, traced) ==
    /\ positions' = tm.positions
    /\ db_positions' = tm.db_positions
    /\ orders' = tm.orders
    /\ this_second' = tm.this_second
    /\ fills' = tm.fills
    /\ trade_journal' = tm.trade_journal
    /\ submitted' = tm.submitted
    /\ raised' = tm.raised
    /\ trade_ids' = tm.trade_ids
    /\ call' = [op |-> op, read |-> IF traced THEN tm.read ELSE EmptyDict,
                 writes |-> tm.writes]
    /\ UNCHANGED simulation

Init ==
    /\ simulation \in BOOLEAN
    /\ this_second = {}
    /\ positions = EmptyDict
    /\ db_positions = EmptyDict
    /\ orders = <<>>
    /\ fills = <<>>
    /\ trade_journal = <<>>
    /\ call = [op |-> "init", read |-> EmptyDict, writes |-> 0]
    /\ submitted = <<>>
    /\ raised = "none"
    /\ trade_ids = <<>>
    /\ faults = 0
    /\ wakeups = 0
    /\ jobs = [job \in Jobs |-> "idle"]
    /\ locals = [job \in Jobs |-> <<>>]
    /\ cycle = [evaluated |-> <<>>, ranked |-> <<>>, written |-> <<>>,
                fresh |-> TRUE, signals |-> EmptyDict]
    /\ result = <<>>

\* The symbols whose feature row execute reads: those of the enter_long
\* signals that are not held (lines 39-43).  Rows of other symbols are never
\* read, so the feature maps of a call are drawn over these symbols only; in
\* the same way manage_open_positions and flatten_all read the rows of held
\* symbols only (lines 126-127, 166-167), and the gateway answers only for
\* symbols with a row.
Entering(ranked) ==
    { ranked[i].symbol : i \in { j \in DOMAIN ranked :
          /\ ranked[j].decision = "enter_long"
          /\ ~Held(Machine, ranked[j].symbol) } }

Execute(Answers, traced) ==
    \E ranked \in RankedLists :
    \E features \in FeatureMaps(Entering(ranked), "execute") :
    \E answers \in [DOMAIN features -> Answers] :
        LET tm == execute(Machine, ranked, features, answers)
        IN  /\ Len(tm.trade_journal) <= MaxTrades
            /\ Leaves(tm, "execute", traced)

Manage(Answers, traced) ==
    \E features \in FeatureMaps(DOMAIN positions, "manage") :
    \E answers \in [DOMAIN features -> Answers] :
        Leaves(manage_open_positions(Machine, features, answers), "manage", traced)

\* flatten_all submits for every held symbol, with a row or not
Flatten(Answers, traced) ==
    \E features \in FeatureMaps(DOMAIN positions, "flatten") :
    \E answers \in [DOMAIN positions -> Answers] :
        Leaves(flatten_all(Machine, features, answers), "flatten", traced)

\* the wall clock passes a second boundary between two calls
Tick ==
    /\ this_second' = {}
    /\ UNCHANGED <<simulation, positions, db_positions, orders, fills,
                   trade_journal, call, submitted, raised, trade_ids, faults,
                   wakeups, jobs, locals, cycle, result>>

\* the repository's wiring: the TradeManager over the OrderClient
Next ==
    \/ Execute(OrderClientAnswers(simulation), TRUE) /\ UNCHANGED <<faults, wakeups, jobs, locals, cycle, result>>
    \/ Manage(OrderClientAnswers(simulation), TRUE) /\ UNCHANGED <<faults, wakeups, jobs, locals, cycle, result>>
    \/ Flatten(OrderClientAnswers(simulation), TRUE) /\ UNCHANGED <<faults, wakeups, jobs, locals, cycle, result>>
    \/ Tick

Spec == Init /\ [][Next]_vars

\* _close_position called on its own, for any symbol, held or not
CloseReasons == {"stop hit", "flatten"}

Close(Answers, traced) ==
    \E symbol \in Symbols :
    \E price \in { p * Dollar : p \in PriceLevels(symbol) } :
    \E reason \in CloseReasons :
    \E answer \in Answers :
        LET looked == [Machine EXCEPT !.read = Put(@, symbol, [c |-> price])]
        IN  Leaves(close_position(looked, symbol, price, reason, answer), "close", traced)

NextClose ==
    \/ Next
    \/ Close(OrderClientAnswers(simulation), TRUE) /\ UNCHANGED <<faults, wakeups, jobs, locals, cycle, result>>

SpecClose == Init /\ [][NextClose]_vars

\* The process stops while positions are open and is started again: the
\* Orchestrator makes a new TradeManager over the same store (orchestrator.py
\* line 45), and __init__ starts it with an empty map (line 29).
Restart ==
    /\ positions # EmptyDict
    /\ positions' = EmptyDict
    /\ call' = [op |-> "init", read |-> EmptyDict, writes |-> 0]
    /\ submitted' = <<>>
    /\ raised' = "none"
    /\ trade_ids' = <<>>
    /\ UNCHANGED <<simulation, this_second, db_positions, orders, fills, trade_journal,
                   faults, wakeups, jobs, locals, cycle, result>>

NextRestart ==
    \/ Next
    \/ Restart

SpecRestart == Init /\ [][NextRestart]_vars

\* The rows of one feature snapshot, which carry every key (features.py lines
\* 35-47): a close, an ATR and a slow EMA below the entry stop (97), between
\* the stop and the close (99) or above the close (109).
SnapshotCloses(s) == IF s = "A" THEN {100, 105} ELSE {100}
SnapshotEmas(s) == IF s = "A" THEN {97, 99, 109} ELSE {97}

SnapshotRows(s) ==
    { [c |-> p * Dollar, atr |-> a * Dollar, ema_slow |-> m * Dollar] :
          p \in SnapshotCloses(s), a \in AtrLevels(s), m \in SnapshotEmas(s) }

Snapshots ==
    UNION { { f \in [T -> UNION { SnapshotRows(s) : s \in T }] :
                  \A s \in T : f[s] \in SnapshotRows(s) } :
            T \in SUBSET Symbols }

\* run_cycle's two calls on the TradeManager (orchestrator.py lines 94-95):
\* execute and then manage_open_positions, on the same feature map
ExecuteThenManage ==
    \E ranked \in RankedLists :
    \E features \in Snapshots :
    \E answers \in [Symbols -> OrderClientAnswers(simulation)] :
        LET executed == execute(Machine, ranked, features, answers)
            managed == IF executed.raised # "none" THEN executed
                       ELSE manage_open_positions(executed, features, answers)
        IN  /\ Len(managed.trade_journal) <= MaxTrades
            /\ Leaves(managed, "trade", TRUE)
            /\ UNCHANGED <<faults, wakeups, jobs, locals, cycle, result>>

NextSnapshot ==
    \/ ExecuteThenManage
    \/ Tick

SpecSnapshot == Init /\ [][NextSnapshot]_vars

\* The TradeManager over an Order Gateway that may answer any status or raise
\* (trade_manager.py tests the status at line 55); it does so for at most
\* MaxFaults orders of a behaviour.
Faulty == faults' = faults + Cardinality(NotFilled(submitted')) /\ faults' <= MaxFaults

NextGateway ==
    \/ Execute(GatewayAnswers, FALSE) /\ Faulty /\ UNCHANGED <<wakeups, jobs, locals, cycle, result>>
    \/ Manage(GatewayAnswers, FALSE) /\ Faulty /\ UNCHANGED <<wakeups, jobs, locals, cycle, result>>
    \/ Flatten(GatewayAnswers, FALSE) /\ Faulty /\ UNCHANGED <<wakeups, jobs, locals, cycle, result>>
    \/ Tick

InitGateway == Init /\ simulation = TRUE

SpecGateway == InitGateway /\ [][NextGateway]_vars

----------------------------------------------------------------------------
(* Daemon mode: start_scheduler's jobs on a BackgroundScheduler, whose thread
   pool runs the jobs handed to it side by side; one instance of a job id runs
   at a time.  The jobs share the Orchestrator's one TradeManager.  A job's
   calls on it are steps of the job's thread. *)

\* the jobs due at the scheduler's k-th wakeup
Due(k) ==
    {"cycle_5m"}
    \cup (IF (k * cycle_5m_minutes) % cycle_15m_minutes = 0 THEN {"cycle_15m"} ELSE {})
    \cup (IF k = FlattenWakeup THEN {"flatten"} ELSE {})

\* the first TradeManager call of a job
FirstCall(job) == IF job = "flatten" THEN "flatten_all" ELSE "execute"

\* The scheduler wakes up and hands each due job to the pool, unless the
\* job's previous instance is still running.
Wakeup ==
    /\ wakeups < MaxWakeups
    /\ wakeups' = wakeups + 1
    /\ jobs' = [job \in Jobs |->
                   IF job \in Due(wakeups + 1) /\ jobs[job] = "idle"
                   THEN FirstCall(job) ELSE jobs[job]]
    /\ UNCHANGED <<simulation, this_second, positions, db_positions, orders, fills,
                   trade_journal, call, submitted, raised, trade_ids, faults, locals, cycle, result>>

\* run_cycle in the thread of a job: execute, then manage_open_positions; an
\* exception ends the job
run_cycle(job) ==
    \/ /\ jobs[job] = "execute"
       /\ Execute(OrderClientAnswers(simulation), FALSE)
       /\ jobs' = [jobs EXCEPT ![job] = IF raised' = "none" THEN "manage" ELSE "idle"]
       /\ UNCHANGED <<faults, wakeups, locals, cycle, result>>
    \/ /\ jobs[job] = "manage"
       /\ Manage(OrderClientAnswers(simulation), FALSE)
       /\ jobs' = [jobs EXCEPT ![job] = "idle"]
       /\ UNCHANGED <<faults, wakeups, locals, cycle, result>>

\* flatten_guard in the thread of the flatten job
flatten_guard ==
    /\ jobs["flatten"] = "flatten_all"
    /\ Flatten(OrderClientAnswers(simulation), FALSE)
    /\ jobs' = [jobs EXCEPT !["flatten"] = "idle"]
    /\ UNCHANGED <<faults, wakeups, locals, cycle, result>>

NextDaemon ==
    \/ Wakeup
    \/ \E job \in {"cycle_5m", "cycle_15m"} : run_cycle(job)
    \/ flatten_guard
    \/ Tick

SpecDaemon == Init /\ [][NextDaemon]_vars

----------------------------------------------------------------------------
(* Daemon mode with the threads of two run_cycle jobs interleaved inside
   execute: a thread can lose the processor between the gateway's answer
   (line 54) and the writes that follow it (lines 58-121).  Each execute is
   handed one signal at most. *)

ShortLists == { ranked \in RankedLists : Len(ranked) <= 1 }

\* the jobs whose execute holds a filled BUY it has not written yet
Filling == { job \in Jobs : locals[job] # <<>> }

\* where run_cycle goes after execute
AfterExecute(tm) == IF tm.raised = "none" THEN "manage" ELSE "idle"

\* execute up to the gateway's answer
execute_tests(job) ==
    /\ jobs[job] = "execute" /\ locals[job] = <<>>
    /\ \E ranked \in ShortLists :
       \E features \in FeatureMaps(Entering(ranked), "execute") :
       \E answers \in [DOMAIN features -> OrderClientAnswers(simulation)] :
           LET tm == IF ranked = <<>> THEN Machine
                     ELSE ExecuteTests(Machine, ranked[1], features, answers)
           IN  /\ tm.pending # <<>> =>
                      Len(trade_journal) + Cardinality(Filling) < MaxTrades
               /\ Leaves(tm, "execute", FALSE)
               /\ locals' = [locals EXCEPT ![job] = tm.pending]
               /\ jobs' = [jobs EXCEPT ![job] =
                              IF tm.pending # <<>> THEN "execute" ELSE AfterExecute(tm)]
    /\ UNCHANGED <<faults, wakeups, cycle, result>>

\* execute from the fill on
execute_writes(job) ==
    /\ jobs[job] = "execute" /\ locals[job] # <<>>
    /\ LET local == locals[job][1]
           tm == Enter(Machine, local.signal, local.price, local.stop_px, local.qty)
       IN  /\ Leaves(tm, "execute", FALSE)
           /\ jobs' = [jobs EXCEPT ![job] = AfterExecute(tm)]
    /\ locals' = [locals EXCEPT ![job] = <<>>]
    /\ UNCHANGED <<faults, wakeups, cycle, result>>

\* manage_open_positions, the last call of run_cycle
manage_after(job) ==
    /\ jobs[job] = "manage"
    /\ Manage(OrderClientAnswers(simulation), FALSE)
    /\ jobs' = [jobs EXCEPT ![job] = "idle"]
    /\ UNCHANGED <<faults, wakeups, locals, cycle, result>>

NextThreads ==
    \/ Wakeup
    \/ \E job \in {"cycle_5m", "cycle_15m"} : execute_tests(job)
    \/ \E job \in {"cycle_5m", "cycle_15m"} : execute_writes(job)
    \/ \E job \in {"cycle_5m", "cycle_15m"} : manage_after(job)
    \/ flatten_guard
    \/ Tick

SpecThreads == Init /\ [][NextThreads]_vars

----------------------------------------------------------------------------
(* Daemon mode with the thread of the cycle_5m job interleaved inside
   manage_open_positions: the loop lists the items of the map once (line 126)
   and the thread can lose the processor before each item; the flatten job
   and the cycle_15m job run in between. *)

\* list(self.positions.items()): the symbols with the objects the map holds
Listed(book) ==
    LET items == Items(book)
    IN  [i \in DOMAIN items |-> [symbol |-> items[i], managed |-> book[items[i]]]]

\* the object of a listed item as it is now: the loop holds a reference, so
\* it sees what others wrote to the object while the map held it
Referenced(item) ==
    IF item.symbol \in DOMAIN positions
       /\ positions[item.symbol].trade_id = item.managed.trade_id
    THEN positions[item.symbol]
    ELSE item.managed

\* execute, the first TradeManager call of run_cycle
execute_first(job) ==
    /\ jobs[job] = "execute"
    /\ Execute(OrderClientAnswers(simulation), FALSE)
    /\ jobs' = [jobs EXCEPT ![job] = IF raised' = "none" THEN "manage" ELSE "idle"]
    /\ UNCHANGED <<faults, wakeups, locals, cycle, result>>

\* manage_open_positions lists the items (line 126)
manage_list(job) ==
    /\ jobs[job] = "manage"
    /\ jobs' = [jobs EXCEPT ![job] = IF DOMAIN positions = {} THEN "idle" ELSE "managing"]
    /\ locals' = [locals EXCEPT ![job] = Listed(positions)]
    /\ UNCHANGED <<simulation, this_second, positions, db_positions, orders, fills,
                   trade_journal, call, submitted, raised, trade_ids, faults, wakeups,
                   cycle, result>>

\* one pass of the loop's body (lines 127-163); an exception ends the job
manage_item(job) ==
    /\ jobs[job] = "managing"
    /\ LET item == Head(locals[job])
       IN  \E features \in FeatureMaps({item.symbol}, "manage") :
           \E answers \in [DOMAIN features -> OrderClientAnswers(simulation)] :
               LET tm == ManageItem(Machine, item.symbol, Referenced(item), features, answers)
                   over == tm.raised # "none" \/ Tail(locals[job]) = <<>>
               IN  /\ Leaves(tm, "manage", FALSE)
                   /\ locals' = [locals EXCEPT ![job] = IF over THEN <<>> ELSE Tail(@)]
                   /\ jobs' = [jobs EXCEPT ![job] = IF over THEN "idle" ELSE "managing"]
    /\ UNCHANGED <<faults, wakeups, cycle, result>>

NextSweep ==
    \/ Wakeup
    \/ execute_first("cycle_5m")
    \/ manage_list("cycle_5m")
    \/ manage_item("cycle_5m")
    \/ run_cycle("cycle_15m")
    \/ flatten_guard
    \/ Tick

SpecSweep == Init /\ [][NextSweep]_vars

----------------------------------------------------------------------------
(* One cycle: rank_candidates, _persist_signals, execute, manage_open_positions *)

\* settings.vol_spike_mult = 2.0, in tenths
vol_spike_mult_x10 == 20
\* the consolidation threshold rank_candidates passes, 0.05, in hundredths
consolidation_x100 == 5
\* the points of one passed rule, and the weights of the sentiment score and
\* of the context bias
rule_points == 25
ai_weight == 30
context_weight == 10
\* the sentiment scores at or below which analyze gates VETO (-0.7) and
\* SOFT_VETO (-0.4), in tenths below zero
veto_below_x10 == 7
soft_veto_below_x10 == 4

vwap_enforce == TRUE
ai_soft_veto == TRUE

\* the AppSettings the engine reads, at their defaults
Settings ==
    [top_k_execute |-> top_k_execute, vwap_enforce |-> vwap_enforce,
     vol_spike_mult |-> vol_spike_mult_x10, ai_soft_veto |-> ai_soft_veto]

\* The rows build_snapshot makes carry every key; prices in ticks, volume_spike
\* and context_bias in tenths, consolidation in hundredths.
CycleRow(c, fast, slow, vwap, spike, cons, bias) ==
    [c |-> c * Dollar, atr |-> 1 * Dollar, ema_fast |-> fast * Dollar,
     ema_slow |-> slow * Dollar, vwap |-> vwap * Dollar, volume_spike |-> spike,
     consolidation |-> cons, context_bias |-> bias]

\* a row passing the four rules at 100, one failing them at 100 and, for A,
\* one failing them at 109 and one passing three of them with a negative bias
CycleRows(s) ==
    {CycleRow(100, 99, 97, 99, 30, 1, 0), CycleRow(100, 101, 97, 101, 10, 10, 0)}
    \cup IF s = "A"
         THEN {CycleRow(109, 110, 97, 110, 10, 10, 0), CycleRow(100, 99, 97, 99, 30, 10, 0 - 5)}
         ELSE {}

\* the keys of the feature map in the order build_snapshot inserted them
FeatureOrders == {<<>>, <<"A">>, <<"B">>, <<"A", "B">>, <<"B", "A">>}

Keys(order) == { order[i] : i \in DOMAIN order }

CycleFeatureMaps(order) ==
    { f \in [Keys(order) -> UNION { CycleRows(s) : s \in Symbols }] :
          \A s \in Keys(order) : f[s] \in CycleRows(s) }

\* a policy whose thresholds are exclusive
StrictGate(score, soft_veto) ==
    IF score < 0 - veto_below_x10 THEN "VETO"
    ELSE IF score < 0 - soft_veto_below_x10 /\ soft_veto THEN "SOFT_VETO" ELSE "PASS"

\* SentimentAnalyzer.analyze: the gate of a score (lines 70-76)
Gate(score, soft_veto) ==
    IF score <= 0 - veto_below_x10 THEN "VETO"
    ELSE IF score <= 0 - soft_veto_below_x10 /\ soft_veto THEN "SOFT_VETO"
    ELSE "PASS"

\* the reason analyze gives with a gate (lines 73-79)
GateReason(gate) ==
    IF gate = "VETO" THEN "strong negative sentiment"
    ELSE IF gate = "SOFT_VETO" THEN "soft negative sentiment"
    ELSE "neutral or positive"

\* the SentimentResult analyze makes of a score (line 81)
Analyzed(score, soft_veto) ==
    [score |-> score, gate |-> Gate(score, soft_veto),
     reasons |-> <<GateReason(Gate(score, soft_veto))>>]

SentimentResult(score) == Analyzed(score, ai_soft_veto)

\* the result rank_candidates takes for a symbol analyze has none for
\* (engine.py line 32)
NoNews == [score |-> 0, gate |-> "PASS", reasons |-> <<"no news">>]

\* sentiment scores in tenths; analyze has a result for the symbols with news
SentimentScores(s) == IF s = "A" THEN {0 - 8, 0 - 5} ELSE {0 - 8}

SentimentMaps ==
    UNION { { m \in [T -> UNION { { SentimentResult(x) : x \in SentimentScores(s) } : s \in T }] :
                  \A s \in T : m[s] \in { SentimentResult(x) : x \in SentimentScores(s) } } :
            T \in SUBSET Symbols }

\* rules.py.  row.get(key) is None when the key is missing; a value looked up
\* is kept as a sequence of none or one.
Has(row, key) == key \in DOMAIN row

RuleResult(passed, reason) == [passed |-> passed, reason |-> reason]

\* row.get("c") or row.get("close"): a zero c gives way to close
CloseOf(row) ==
    IF Has(row, "c") /\ row.c # 0 THEN <<row.c>>
    ELSE IF Has(row, "close") THEN <<row.close>>
    ELSE <<>>

ema_cross_ok(row) ==
    IF ~Has(row, "ema_fast") \/ ~Has(row, "ema_slow") \/ CloseOf(row) = <<>>
    THEN RuleResult(FALSE, "missing EMA data")
    ELSE IF row.ema_fast > row.ema_slow /\ CloseOf(row)[1] > row.ema_fast
    THEN RuleResult(TRUE, "EMA fast above slow")
    ELSE RuleResult(FALSE, "EMA alignment missing")

vwap_ok(row, enforce) ==
    IF ~Has(row, "vwap") \/ CloseOf(row) = <<>>
    THEN RuleResult(~enforce, "vwap unavailable")
    ELSE IF CloseOf(row)[1] >= row.vwap \/ ~enforce
    THEN RuleResult(TRUE, "Price above VWAP")
    ELSE RuleResult(FALSE, "Below VWAP")

\* a volume rule that takes a missing spike for one at the multiple
VolumeOrPass(row, spike_mult) ==
    IF Get(row, "volume_spike", spike_mult) >= spike_mult
    THEN RuleResult(TRUE, "Volume spike")
    ELSE RuleResult(FALSE, "Volume muted")

volume_ok(row, spike_mult) ==
    IF ~Has(row, "volume_spike") THEN RuleResult(FALSE, "volume data missing")
    ELSE IF row.volume_spike >= spike_mult THEN RuleResult(TRUE, "Volume spike")
    ELSE RuleResult(FALSE, "Volume muted")

not_consolidating(row, threshold) ==
    IF ~Has(row, "consolidation") THEN RuleResult(FALSE, "consolidation unknown")
    ELSE IF row.consolidation <= threshold THEN RuleResult(TRUE, "Range expansion ok")
    ELSE RuleResult(FALSE, "Still consolidating")

\* a score that gives a failing rule some of its points
PartialPoints(passed) == IF passed THEN rule_points ELSE 10

Points(passed) == IF passed THEN rule_points ELSE 0

\* a sentiment score taken as it comes
Unclamped(x, lo, hi) == x

Clamp(x, lo, hi) == IF x < lo THEN lo ELSE IF x > hi THEN hi ELSE x

\* a rank_candidates that never takes the veto branch
NeverVetoed(gate) == FALSE

\* "if sentiment_res.gate == 'VETO'" (engine.py line 35)
Vetoed(gate) == gate = "VETO"

\* the RankedSignal rank_candidates appends for one symbol (lines 26-64)
Candidate(symbol, row, sentiment, settings) ==
    LET ema_res == ema_cross_ok(row)
        vwap_res == vwap_ok(row, settings.vwap_enforce)
        vol_res == volume_ok(row, settings.vol_spike_mult)
        cons_res == not_consolidating(row, consolidation_x100)
        base_score == Points(ema_res.passed) + Points(vwap_res.passed)
                      + Points(vol_res.passed) + Points(cons_res.passed)
        sentiment_res == IF symbol \in DOMAIN sentiment THEN sentiment[symbol] ELSE NoNews
        ai_component == (Clamp(sentiment_res.score, 0 - 10, 10) * ai_weight) \div 10
        context_bias == (Get(row, "context_bias", 0) * context_weight) \div 10
        total == MaxOf(base_score + ai_component + context_bias, 0)
        reasons == <<ema_res.reason, vwap_res.reason, vol_res.reason, cons_res.reason>>
                   \o sentiment_res.reasons
    IN  IF Vetoed(sentiment_res.gate)
        THEN [symbol |-> symbol, base_score |-> base_score, ai_adjustment |-> ai_component,
              context_bias |-> context_bias, score |-> 0, decision |-> "skip_ai_veto",
              reasons |-> <<"AI veto">>, gate |-> "VETO"]
        ELSE [symbol |-> symbol, base_score |-> base_score, ai_adjustment |-> ai_component,
              context_bias |-> context_bias, score |-> total,
              decision |-> IF total > 0 THEN "enter_long" ELSE "observe",
              reasons |-> reasons, gate |-> sentiment_res.gate]

\* the results list before it is sorted, in the order of the feature map
Candidates(order, features, sentiment, settings) ==
    [i \in DOMAIN order |-> Candidate(order[i], features[order[i]], sentiment, settings)]

\* a sort that leaves the results in the order of the feature map
InsertLast(sorted, item) == Append(sorted, item)

\* results.sort(key=score, reverse=True): stable, equal scores keep their order
InsertByScore(sorted, item) ==
    LET k == Cardinality({ i \in DOMAIN sorted : sorted[i].score >= item.score })
    IN  SubSeq(sorted, 1, k) \o <<item>> \o SubSeq(sorted, k + 1, Len(sorted))

RECURSIVE SortedByScore(_)
SortedByScore(results) ==
    IF results = <<>> THEN <<>>
    ELSE InsertByScore(SortedByScore(SubSeq(results, 1, Len(results) - 1)),
                       results[Len(results)])

\* results[: top_k_execute]
Truncated(results, k) == SubSeq(results, 1, IF Len(results) < k THEN Len(results) ELSE k)

\* rank_candidates(features, sentiment, settings)
rank_candidates(order, features, sentiment, settings) ==
    Truncated(SortedByScore(Candidates(order, features, sentiment, settings)),
              settings.top_k_execute)

\* _persist_signals: one SignalRecord per signal of the list it is given (every
\* symbol of the feature map has a bar, so a ts)
persist_signals(ranked) ==
    [i \in DOMAIN ranked |->
        [symbol |-> ranked[i].symbol, final_score |-> ranked[i].score,
         decision |-> ranked[i].decision, reasons |-> ranked[i].reasons]]

\* write_signals: INSERT ... ON CONFLICT(symbol, ts, timeframe) DO UPDATE SET
\* the scores, the decision and the reasons.  The table is kept for one
\* timeframe and the timestamp of the latest bar, by symbol: a row of an
\* earlier bar has another key and is out of reach of the insert.
RECURSIVE write_signals(_, _)
write_signals(table, records) ==
    IF records = <<>> THEN table
    ELSE write_signals(Put(table, Head(records).symbol, Head(records)), Tail(records))

\* run_cycle(timeframe), from the feature map on (orchestrator.py lines 87-95),
\* for the feature maps of Orders.  fresh: the feed has a bar later than the
\* latest of the cycle before, so the signals of this cycle carry a new ts;
\* otherwise they carry the ts of the rows of the cycle before.
Cycle(Orders, Fresh) ==
    \E order \in Orders :
    \E fresh \in Fresh :
    \E features \in CycleFeatureMaps(order) :
    \E sentiment \in SentimentMaps :
    \E answers \in [Symbols -> OrderClientAnswers(simulation)] :
        LET results == Candidates(order, features, sentiment, Settings)
            ranked == rank_candidates(order, features, sentiment, Settings)
            executed == execute(Machine, ranked, features, answers)
            managed == IF executed.raised # "none" THEN executed
                       ELSE manage_open_positions(executed, features, answers)
            stored == IF fresh THEN EmptyDict ELSE cycle.signals
        IN  /\ Len(managed.trade_journal) <= MaxTrades
            /\ Leaves(managed, "run_cycle", FALSE)
            /\ cycle' = [evaluated |-> results, ranked |-> ranked,
                         written |-> persist_signals(ranked), fresh |-> fresh,
                         signals |-> write_signals(stored, persist_signals(ranked))]
            /\ UNCHANGED <<faults, wakeups, jobs, locals, result>>

\* cycles that each see a new bar
RunCycle == Cycle(FeatureOrders, {TRUE})

NextCycle ==
    \/ RunCycle
    \/ Tick

SpecCycle == Init /\ [][NextCycle]_vars

\* cycles over one symbol that see a new bar or the latest bar of the cycle
\* before
AuditOrders == { order \in FeatureOrders : Len(order) <= 1 }

RunCycleAgain == Cycle(AuditOrders, BOOLEAN)

NextAudit ==
    \/ RunCycleAgain
    \/ Tick

SpecAudit == Init /\ [][NextAudit]_vars

----------------------------------------------------------------------------
(* The pure functions: each is applied once to an input drawn at the start *)

\* rank_candidates takes any feature map, sentiment dict and settings
RankSymbols == {"A", "B", "C"}

\* the orders a feature map may list some of the symbols in
RankOrders ==
    {<<>>} \cup { <<a>> : a \in RankSymbols }
    \cup { o \in RankSymbols \X RankSymbols : o[1] # o[2] }
    \cup { o \in RankSymbols \X RankSymbols \X RankSymbols :
               o[1] # o[2] /\ o[1] # o[3] /\ o[2] # o[3] }

\* rows passing all four rules, none, and (A) three with a negative bias or
\* none with a positive one
RankRows(s) ==
    {CycleRow(100, 99, 97, 99, 30, 1, 0), CycleRow(100, 101, 97, 101, 10, 10, 0)}
    \cup IF s = "A"
         THEN {CycleRow(100, 99, 97, 99, 30, 10, 0 - 5), CycleRow(100, 101, 97, 101, 10, 10, 5)}
         ELSE {}

\* sentiment scores in tenths, inside and outside [-1, 1]
RankScores(s) ==
    IF s = "A" THEN {0 - 20, 0 - 8, 0 - 5, 20} ELSE IF s = "B" THEN {0 - 8, 5} ELSE {}

RankFeatureMaps(order) ==
    { f \in [Keys(order) -> UNION { RankRows(s) : s \in RankSymbols }] :
          \A s \in Keys(order) : f[s] \in RankRows(s) }

RankSentimentMaps(S) ==
    UNION { { m \in [T -> UNION { { SentimentResult(x) : x \in RankScores(s) } : s \in T }] :
                  \A s \in T : m[s] \in { SentimentResult(x) : x \in RankScores(s) } } :
            T \in SUBSET S }

\* settings.top_k_execute: the bound and one more
RankSettings ==
    { [Settings EXCEPT !.top_k_execute = k] : k \in top_k_execute .. top_k_execute + 1 }

RankCalls ==
    UNION { { [op |-> "rank_candidates", writes |-> 0,
               read |-> [order |-> order, features |-> features,
                         sentiment |-> sentiment, settings |-> settings]] :
                  features \in RankFeatureMaps(order),
                  sentiment \in RankSentimentMaps(Keys(order)),
                  settings \in RankSettings } :
            order \in RankOrders }

\* analyze scores the news of a symbol between -1 and 1, in tenths
AnalyzeCalls ==
    { [op |-> "analyze", writes |-> 0, read |-> [score |-> score, ai_soft_veto |-> flag]] :
          score \in (0 - 10) .. 10, flag \in BOOLEAN }

Returned(value) ==
    /\ result = <<>>
    /\ result' = <<value>>
    /\ UNCHANGED <<simulation, this_second, positions, db_positions, orders, fills,
                   trade_journal, call, submitted, raised, trade_ids, faults,
                   wakeups, jobs, locals, cycle>>

\* rank_candidates(features, sentiment, settings); evaluated is the results
\* list before it is sorted
Rank ==
    /\ call.op = "rank_candidates"
    /\ LET args == call.read
       IN  Returned([evaluated |-> Candidates(args.order, args.features, args.sentiment,
                                              args.settings),
                     ranked |-> rank_candidates(args.order, args.features, args.sentiment,
                                                args.settings)])

\* analyze, for the news of one symbol
Analyze ==
    /\ call.op = "analyze"
    /\ Returned(Analyzed(call.read.score, call.read.ai_soft_veto))

\* Feature rows for the rules: each key is missing or carries one of a few
\* values (the row of test_rules_cover_positive_and_negative_cases and values
\* that fail each rule); volume_spike in tenths, consolidation in hundredths.
RuleRow(fast, slow, c, close, vwap, spike, cons) ==
    LET full == [ema_fast |-> fast, ema_slow |-> slow, c |-> c, close |-> close,
                 vwap |-> vwap, volume_spike |-> spike, consolidation |-> cons]
    IN  [key \in { k \in DOMAIN full : full[k] # NULL } |-> full[key]]

RuleRows ==
    { RuleRow(fast, slow, c, close, vwap, spike, cons) :
          fast \in {12, 8, NULL}, slow \in {10, NULL}, c \in {13, 0, NULL},
          close \in {11, NULL}, vwap \in {12, 14, NULL}, spike \in {30, 10, NULL},
          cons \in {1, 10, NULL} }

RuleCalls ==
    { [op |-> "rules", writes |-> 0,
       read |-> [row |-> row, settings |-> [Settings EXCEPT !.vwap_enforce = flag]]] :
          row \in RuleRows, flag \in BOOLEAN }

\* the four rules as rank_candidates applies them to a row, and the base score
\* it makes of them (engine.py lines 26-30)
EvaluateRules ==
    /\ call.op = "rules"
    /\ LET row == call.read.row
           settings == call.read.settings
       IN  Returned([ema_res |-> ema_cross_ok(row),
                     vwap_res |-> vwap_ok(row, settings.vwap_enforce),
                     vol_res |-> volume_ok(row, settings.vol_spike_mult),
                     cons_res |-> not_consolidating(row, consolidation_x100),
                     base_score |-> Candidate("A", row, EmptyDict, settings).base_score])

\* The bars a feed hands to build_snapshot: any sequence of bars of the symbols,
\* in any order, timestamps repeated or not.
BarTimes == 1 .. MaxBars

Bars == { [symbol |-> s, ts |-> t] : s \in Symbols, t \in BarTimes }

RECURSIVE BarLists(_)
BarLists(n) ==
    IF n = 0 THEN {<<>>}
    ELSE BarLists(n - 1)
         \cup { Append(list, bar) : list \in { l \in BarLists(n - 1) : Len(l) = n - 1 },
                                    bar \in Bars }

SnapshotCalls ==
    { [op |-> "build_snapshot", writes |-> 0, read |-> [bars |-> bars]] :
          bars \in BarLists(MaxBars) }

\* grouped.setdefault(bar.symbol, []).append(bar) (lines 15-17)
BarsOf(bars, symbol) == SelectSeq(bars, LAMBDA bar : bar.symbol = symbol)

\* symbol_bars.sort(key=lambda b: b.ts): stable, equal timestamps keep their order
InsertByTs(sorted, bar) ==
    LET k == Cardinality({ i \in DOMAIN sorted : sorted[i].ts <= bar.ts })
    IN  SubSeq(sorted, 1, k) \o <<bar>> \o SubSeq(sorted, k + 1, Len(sorted))

RECURSIVE SortedByTs(_)
SortedByTs(bars) ==
    IF bars = <<>> THEN <<>>
    ELSE InsertByTs(SortedByTs(SubSeq(bars, 1, Len(bars) - 1)), bars[Len(bars)])

\* the sequences build_snapshot computes the features of, by symbol (lines 15-21)
SymbolBars(bars) ==
    [symbol \in { bars[i].symbol : i \in DOMAIN bars } |-> SortedByTs(BarsOf(bars, symbol))]

\* build_snapshot, up to the sort
BuildSnapshot ==
    /\ call.op = "build_snapshot"
    /\ Returned(SymbolBars(call.read.bars))

\* Bars for the indicators: high, low and close in dollars, low <= close <=
\* high as in every bar the feeds make, any sequence of up to MaxBars of them,
\* the flat series among them
OhlcLevels == {9, 10, 12}

OhlcBars ==
    { bar \in [h : OhlcLevels, l : OhlcLevels, c : OhlcLevels] :
          bar.l <= bar.c /\ bar.c <= bar.h }

RECURSIVE OhlcLists(_)
OhlcLists(n) ==
    IF n = 0 THEN {<<>>}
    ELSE OhlcLists(n - 1)
         \cup { Append(list, bar) : list \in { l \in OhlcLists(n - 1) : Len(l) = n - 1 },
                                    bar \in OhlcBars }

AtrCalls ==
    { [op |-> "atr", writes |-> 0, read |-> [bars |-> bars, period |-> period]] :
          bars \in OhlcLists(MaxBars), period \in 1 .. MaxBars }

\* abs(x)
Abs(x) == IF x < 0 THEN 0 - x ELSE x

\* a range taken from the high up to the low
range_low_high(bar) == bar.l - bar.h

\* range_high_low = bar.h - bar.l (line 37)
range_high_low(bar) == bar.h - bar.l

\* the true range of the idx-th bar (lines 37-40): without a previous close the
\* two ranges to it are the high-low range
TrueRange(bars, idx) ==
    LET bar == bars[idx]
        range_high_close == IF idx > 1 THEN Abs(bar.h - bars[idx - 1].c)
                            ELSE range_high_low(bar)
        range_low_close == IF idx > 1 THEN Abs(bar.l - bars[idx - 1].c)
                           ELSE range_high_low(bar)
    IN  MaxOf(range_high_low(bar), MaxOf(range_high_close, range_low_close))

RECURSIVE SumOf(_)
SumOf(values) == IF values = <<>> THEN 0 ELSE Head(values) + SumOf(Tail(values))

\* atr(bars, period): the mean of the true ranges of the trailing window, kept
\* as the fraction n / d of the sum and the length of the window (lines 43-47)
atr(bars, period) ==
    LET trs == [idx \in DOMAIN bars |-> TrueRange(bars, idx)]
    IN  [idx \in DOMAIN bars |->
            LET start == MaxOf(1, idx - period + 1)
                window == SubSeq(trs, start, idx)
            IN  [n |-> SumOf(window), d |-> Len(window)]]

Atr ==
    /\ call.op = "atr"
    /\ Returned(atr(call.read.bars, call.read.period))

\* The news handed to analyze.  A headline is kept as the number of words of
\* the positive and of the negative lexicon it contains: that of the test's
\* AAPL item (strong, upgrade, record), that of its TSLA item (lawsuit, weak),
\* one word of each, and none.  An item is a Catalyst, which carries its text
\* in title (models.py lines 19-31), or an object with a headline attribute.
Headlines ==
    {[pos |-> 3, neg |-> 0], [pos |-> 0, neg |-> 2], [pos |-> 1, neg |-> 1],
     [pos |-> 0, neg |-> 0]}

Catalysts == { [symbol |-> s, title |-> text] : s \in Symbols, text \in Headlines }

HeadlineItems == { [symbol |-> s, headline |-> text] : s \in Symbols, text \in Headlines }

RECURSIVE NewsLists(_)
NewsLists(n) ==
    IF n = 0 THEN {<<>>}
    ELSE NewsLists(n - 1)
         \cup { Append(list, item) : list \in { l \in NewsLists(n - 1) : Len(l) = n - 1 },
                                     item \in Catalysts \cup HeadlineItems }

NewsCalls ==
    { [op |-> "analyze_news", writes |-> 0,
       read |-> [news_items |-> items, ai_sentiment_enabled |-> enabled,
                 ai_soft_veto |-> ai_soft_veto]] :
          items \in NewsLists(MaxNews), enabled \in BOOLEAN }

\* the columns of the ai_provenance table (schema.py lines 75-84) and those
\* _persist names in its INSERT (sentiment.py line 139)
ProvenanceColumns ==
    {"id", "symbol", "ts", "model_name", "inputs_json", "outputs_json", "delta_applied",
     "notes"}

PersistColumns == {"symbol", "run_ts", "raw_text", "model", "score", "gate", "reasons"}

\* the symbols of the news in the order news_map got them (lines 55-57)
RECURSIVE NewsSymbols(_)
NewsSymbols(items) ==
    IF items = <<>> THEN <<>>
    ELSE LET rest == NewsSymbols(SubSeq(items, 1, Len(items) - 1))
             symbol == items[Len(items)].symbol
         IN  IF \E i \in DOMAIN rest : rest[i] = symbol THEN rest ELSE Append(rest, symbol)

NewsOf(items, symbol) == SelectSeq(items, LAMBDA item : item.symbol = symbol)

\* item.headline: an object without the attribute raises AttributeError
HasHeadline(item) == "headline" \in DOMAIN item

\* the words of the positive lexicon in the text less those of the negative one
word_score(text) == text.pos - text.neg

\* _score_with_heuristic(items), for items that have a headline: the mean
\* word score of the items whose word score is not 0, clamped to [-3, 3] and
\* divided by 3, kept as the fraction n / d (lines 102-118)
score_with_heuristic(items) ==
    LET counted == SelectSeq(items, LAMBDA item : word_score(item.headline) # 0)
        score == SumOf([i \in DOMAIN counted |-> word_score(counted[i].headline)])
        count == Len(counted)
    IN  IF count = 0 THEN [n |-> 0, d |-> 1]
        ELSE [n |-> Clamp(score, 0 - 3 * count, 3 * count), d |-> 3 * count]

\* the least number of tenths that is not below the fraction
CeilTenths(q) == 0 - ((0 - 10 * q.n) \div q.d)

\* _persist: INSERT INTO ai_provenance(...) (lines 121-149)
persist(done, row) ==
    IF PersistColumns \subseteq ProvenanceColumns
    THEN [done EXCEPT !.provenance = Append(@, row)]
    ELSE [done EXCEPT !.raised = "OperationalError"]

\* the body of analyze's loop for one symbol (lines 61-82)
AnalyzeSymbol(done, symbol, items, enabled, soft_veto) ==
    IF ~enabled
    THEN [done EXCEPT !.results = Put(@, symbol,
              [score |-> [n |-> 0, d |-> 1], gate |-> "PASS", reasons |-> <<"disabled">>])]
    ELSE IF \E i \in DOMAIN items : ~HasHeadline(items[i])
    THEN [done EXCEPT !.raised = "AttributeError"]
    ELSE
    LET score == score_with_heuristic(items)
        gate == Gate(CeilTenths(score), soft_veto)
        res == [score |-> score, gate |-> gate, reasons |-> <<GateReason(gate)>>]
    IN  persist([done EXCEPT !.results = Put(@, symbol, res)],
                [symbol |-> symbol, score |-> score, gate |-> gate])

RECURSIVE AnalyzeLoop(_, _, _, _, _)
AnalyzeLoop(done, symbols, news_items, enabled, soft_veto) ==
    IF symbols = <<>> \/ done.raised # "none" THEN done
    ELSE AnalyzeLoop(AnalyzeSymbol(done, Head(symbols), NewsOf(news_items, Head(symbols)),
                                   enabled, soft_veto),
                     Tail(symbols), news_items, enabled, soft_veto)

\* analyze(news_items): what it returns (nothing when it raises), what it
\* raises and the rows it has inserted into ai_provenance
analyze(news_items, enabled, soft_veto) ==
    LET done == AnalyzeLoop([results |-> EmptyDict, provenance |-> <<>>, raised |-> "none"],
                            NewsSymbols(news_items), news_items, enabled, soft_veto)
    IN  IF done.raised # "none" THEN [done EXCEPT !.results = EmptyDict] ELSE done

AnalyzeNews ==
    /\ call.op = "analyze_news"
    /\ Returned(analyze(call.read.news_items, call.read.ai_sentiment_enabled,
                        call.read.ai_soft_veto))

InitPure ==
    /\ simulation = TRUE
    /\ this_second = {}
    /\ positions = EmptyDict
    /\ db_positions = EmptyDict
    /\ orders = <<>>
    /\ fills = <<>>
    /\ trade_journal = <<>>
    /\ call \in RankCalls \cup AnalyzeCalls \cup RuleCalls \cup SnapshotCalls
                 \cup AtrCalls \cup NewsCalls
    /\ submitted = <<>>
    /\ raised = "none"
    /\ trade_ids = <<>>
    /\ faults = 0
    /\ wakeups = 0
    /\ jobs = [job \in Jobs |-> "idle"]
    /\ locals = [job \in Jobs |-> <<>>]
    /\ cycle = [evaluated |-> <<>>, ranked |-> <<>>, written |-> <<>>,
                fresh |-> TRUE, signals |-> EmptyDict]
    /\ result = <<>>

NextPure ==
    \/ Rank
    \/ Analyze
    \/ EvaluateRules
    \/ BuildSnapshot
    \/ Atr
    \/ AnalyzeNews

SpecPure == InitPure /\ [][NextPure]_vars

----------------------------------------------------------------------------
(* Sizing: _position_size on its own, and execute over rows that size to 0 *)

\* prices and distances from the stop handed to _position_size, in ticks: a
\* stop above the price, at it, within the 0.01 floor, and 1.5, 3, 1000, 2000
\* and 3000 dollars below it
SizePrices == {100 * Dollar, 5000 * Dollar}

SizeGaps ==
    {0 - Dollar, 0, PriceFloor \div 2, PriceFloor, (3 * Dollar) \div 2, 3 * Dollar,
     1000 * Dollar, 2000 * Dollar, 3000 * Dollar}

\* _position_size(price, stop_px), called on its own
Size ==
    \E price \in SizePrices, gap \in SizeGaps :
        /\ result' = <<[price |-> price, stop_px |-> price - gap,
                        qty |-> position_size(price, price - gap)]>>
        /\ Leaves(Machine, "_position_size", TRUE)
        /\ UNCHANGED <<faults, wakeups, jobs, locals, cycle>>

\* execute over the rows for sizing
ExecuteSized(Answers, traced) ==
    \E ranked \in RankedLists :
    \E features \in FeatureMaps(Entering(ranked), "size") :
    \E answers \in [DOMAIN features -> Answers] :
        LET tm == execute(Machine, ranked, features, answers)
        IN  /\ Len(tm.trade_journal) <= MaxTrades
            /\ Leaves(tm, "execute", traced)

NextSizing ==
    \/ Size
    \/ ExecuteSized(OrderClientAnswers(simulation), TRUE) /\ UNCHANGED <<faults, wakeups, jobs, locals, cycle, result>>
    \/ Tick

SpecSizing == Init /\ [][NextSizing]_vars

----------------------------------------------------------------------------
(* What a step shows of the call that made it *)

\* a call of op returns in this step (the clock's step alone empties this_second)
Returns(op) == call'.op = op /\ this_second \subseteq this_second'

\* the gateway calls of the step for a symbol and a side
Submitted(s, side) ==
    { i \in DOMAIN submitted' : submitted'[i].symbol = s /\ submitted'[i].side = side }

\* the rows the step appends to the orders, fills and trade_journal tables
OrdersAdded(s) == { i \in DOMAIN orders' \ DOMAIN orders : orders'[i].symbol = s }
FillsAdded(s) ==
    { i \in DOMAIN fills' \ DOMAIN fills : orders'[fills'[i].order_id].symbol = s }
EntriesAdded(s) ==
    { i \in DOMAIN trade_journal' \ DOMAIN trade_journal : trade_journal'[i].symbol = s }

\* the entry of a dict for a key, as a sequence of none or one
RowOf(d, s) == IF s \in DOMAIN d THEN <<d[s]>> ELSE <<>>

\* the step leaves the symbol's live position, row and journal rows alone and
\* records no order or fill for it
Untouched(s) ==
    /\ RowOf(positions', s) = RowOf(positions, s)
    /\ RowOf(db_positions', s) = RowOf(db_positions, s)
    /\ OrdersAdded(s) = {} /\ FillsAdded(s) = {} /\ EntriesAdded(s) = {}
    /\ \A i \in DOMAIN trade_journal :
           trade_journal[i].symbol = s => trade_journal'[i] = trade_journal[i]

\* the symbol holds the same position (the same trade) before and after the step
SameTrade(s) ==
    /\ s \in DOMAIN positions /\ s \in DOMAIN positions'
    /\ positions'[s].trade_id = positions[s].trade_id

----------------------------------------------------------------------------
(* C1 *)

C1_OnePerSymbol ==
    \A s \in DOMAIN positions :
        /\ positions[s].trade_id \in DOMAIN trade_journal
        /\ trade_journal[positions[s].trade_id].symbol = s

C1_NoReentry ==
    Returns("execute") =>
        \A s \in DOMAIN positions : Submitted(s, "BUY") = {} /\ Untouched(s)

\* C1: the live map holds one ManagedPosition per symbol, that of a trade of
\* the symbol, and an execute call submits no BUY and writes no Order, Fill,
\* Position or TradeJournalEntry for a symbol that is in the live map when it
\* is called, whatever the signal.
C1_NeverReentered == []C1_OnePerSymbol /\ [][C1_NoReentry]_vars

\* execute has returned from an enter_long signal for A, held and scaled
\* before the call, without submitting anything
C1_Witness ==
    /\ call.op = "execute" /\ "A" \in DOMAIN call.read
    /\ call.read["A"].decision = "enter_long"
    /\ "A" \in DOMAIN positions /\ positions["A"].scaled
    /\ submitted = <<>>

----------------------------------------------------------------------------
(* C2 *)

C2_HalvedOnce ==
    \A s \in DOMAIN positions :
        LET entered == trade_journal[positions[s].trade_id].qty
        IN  positions[s].qty = IF positions[s].scaled THEN Half(entered) ELSE entered

C2_ScaledStays ==
    \A s \in Symbols :
        SameTrade(s) /\ positions[s].scaled =>
            positions'[s].scaled /\ positions'[s].qty = positions[s].qty

\* C2: between its entry and its close a position is scaled out at most once:
\* its quantity is the entry quantity until it is scaled and half of it from
\* then on, and the scaled flag, once set, stays set with the quantity
\* unchanged while the position is held.
C2_ScalesAtMostOnce == []C2_HalvedOnce /\ [][C2_ScaledStays]_vars

\* a manage call has seen A, scaled in an earlier call, at a price at or above
\* its scale target and below its final target, and has written nothing
C2_Witness ==
    /\ call.op = "manage" /\ call.writes = 0
    /\ "A" \in DOMAIN positions /\ positions["A"].scaled
    /\ "A" \in DOMAIN call.read /\ call.read["A"] # EmptyDict
    /\ call.read["A"].c >= positions["A"].scale_target
    /\ call.read["A"].c < positions["A"].final_target

----------------------------------------------------------------------------
(* C3 *)

C3_StopStep ==
    \A s \in Symbols : SameTrade(s) => positions'[s].stop_px >= positions[s].stop_px

\* C3: while a position is held, no call lowers its stop_px.
C3_StopNeverLowers == [][C3_StopStep]_vars

\* a manage call has scaled A out at a trailing EMA below its stop
C3_Witness ==
    /\ call.op = "manage" /\ call.writes = 1
    /\ "A" \in DOMAIN positions /\ positions["A"].scaled
    /\ "A" \in DOMAIN call.read /\ call.read["A"] # EmptyDict
    /\ call.read["A"].ema_slow < positions["A"].stop_px

----------------------------------------------------------------------------
(* C4 *)

\* the step has taken the symbol's position out of the live map and, when the
\* call returned normally, closed its journal row with the reason
ClosedFor(s, reason) ==
    /\ s \notin DOMAIN positions'
    /\ raised' = "none" =>
           /\ trade_journal'[positions[s].trade_id].closed
           /\ trade_journal'[positions[s].trade_id].reason_close = reason

\* the step has scaled the symbol's position out and has not closed it
ScaledFor(s, ema) ==
    /\ SameTrade(s)
    /\ positions'[s] = [positions[s] EXCEPT !.qty = Half(@), !.scaled = TRUE,
                                             !.stop_px = MaxOf(@, ema)]
    /\ trade_journal'[positions[s].trade_id] = trade_journal[positions[s].trade_id]

C4_FirstMatch ==
    Returns("manage") =>
        \A s \in DOMAIN positions :
            s \in DOMAIN call'.read /\ call'.read[s] # EmptyDict =>
                LET was == positions[s]
                    price == call'.read[s].c
                    ema == call'.read[s].ema_slow
                    stop == price <= was.stop_px
                    scale == ~was.scaled /\ price >= was.scale_target
                    target == price >= was.final_target
                    trail == ema > was.stop_px
                IN  /\ stop => ClosedFor(s, "stop hit")
                    /\ ~stop /\ scale => ScaledFor(s, ema)
                    /\ ~stop /\ ~scale /\ target => ClosedFor(s, "target hit")
                    /\ ~stop /\ ~scale /\ ~target /\ trail =>
                           positions'[s] = [was EXCEPT !.stop_px = ema]
                    /\ ~stop /\ ~scale /\ ~target /\ ~trail => positions'[s] = was

\* C4: a manage_open_positions call applies to each held symbol it has a row
\* for the first that matches of stop-close (price <= stop), scale-out (not
\* scaled and price >= scale target), target-close (price >= final target) and
\* trail raise (trailing EMA > stop), and nothing else: a position at or below
\* its stop leaves the live map as "stop hit" whatever the targets, an unscaled
\* position at or above its scale target is scaled and stays open even at or
\* above its final target, and the stop is trailed only when none of the three
\* matched.  The reason is in the journal when the call returned normally.
C4_PriorityOrder == [][C4_FirstMatch]_vars

\* a manage call has seen A at or above its final target and has scaled it out,
\* leaving it open
C4_Witness ==
    /\ call.op = "manage" /\ raised = "none"
    /\ "A" \in DOMAIN positions /\ positions["A"].scaled
    /\ "A" \in DOMAIN call.read /\ call.read["A"] # EmptyDict
    /\ call.read["A"].c >= positions["A"].final_target
    /\ ~trade_journal[positions["A"].trade_id].closed

----------------------------------------------------------------------------
(* C5 *)

C5_EntryStep ==
    Returns("execute") =>
        \A s \in DOMAIN call'.read :
            \/ /\ call'.read[s].decision = "enter_long"
               /\ call'.read[s].gate # "VETO"
               /\ s \notin DOMAIN positions
            \/ /\ Submitted(s, "BUY") = {} /\ Submitted(s, "SELL") = {}
               /\ RowOf(positions', s) = RowOf(positions, s)

\* C5: an execute call submits an order or opens a position for a signal only
\* if the signal's decision is enter_long, its gate is not VETO and its symbol
\* is not in the live map.
C5_EntryOnlyUnvetoed == [][C5_EntryStep]_vars

----------------------------------------------------------------------------
(* C6 *)

\* the statuses of a gateway that are not a fill
Unfilled == GatewayAnswers \ {"FILLED", "RAISE"}

\* execute, called after the step with an enter_long signal for the symbol and
\* a row at the same price, submits the same BUY again
Resubmits(sub) ==
    \E row \in ExecuteRows(sub.symbol) :
        LET again == execute(Machine', <<Signal(sub.symbol, <<"enter_long", "PASS">>)>>,
                             [x \in {sub.symbol} |-> row], [x \in {sub.symbol} |-> "FILLED"])
        IN  \E j \in DOMAIN again.submitted :
                again.submitted[j] = [sub EXCEPT !.status = "FILLED"]

C6_UnfilledBuy ==
    Returns("execute") =>
        \A i \in DOMAIN submitted' :
            LET sub == submitted'[i]
            IN  sub.side = "BUY" /\ sub.status \in Unfilled =>
                    /\ sub.symbol \notin DOMAIN positions'
                    /\ Untouched(sub.symbol)
                    /\ \A j \in DOMAIN trade_ids' :
                           trade_journal'[trade_ids'[j]].symbol # sub.symbol
                    /\ Resubmits(sub)

\* C6: when the gateway answers an entry BUY with a status other than FILLED,
\* the symbol is not in the live map after the call, no Order, Fill, Position
\* or TradeJournalEntry is written for it, no trade id is returned for it, and
\* an execute call with the same enter_long signal after it submits the same
\* BUY again.
C6_UnfilledBuyChangesNothing == [][C6_UnfilledBuy]_vars

\* an execute call has had its BUY for A rejected while it held B
C6_Witness ==
    /\ call.op = "execute" /\ raised = "none"
    /\ \E i \in DOMAIN submitted :
           /\ submitted[i].symbol = "A" /\ submitted[i].side = "BUY"
           /\ submitted[i].status = "REJECTED"
    /\ DOMAIN positions = {"B"}

----------------------------------------------------------------------------
(* C7 *)

C7_UnfilledSell ==
    Returns("manage") \/ Returns("flatten") =>
        \A i \in DOMAIN submitted' :
            submitted'[i].side = "SELL" /\ submitted'[i].status \in Unfilled =>
                Untouched(submitted'[i].symbol)

\* C7: when the gateway answers a scale-out SELL or a closing SELL with a
\* status other than FILLED, the position's quantity, scaled flag, stop and
\* live-map entry, its persisted row and its journal row are as before the
\* call, and no Order or Fill is recorded for it.
C7_UnfilledSellChangesNothing == [][C7_UnfilledSell]_vars

----------------------------------------------------------------------------
(* C8 *)

C8_RaisingGateway ==
    Returns("execute") \/ Returns("manage") \/ Returns("flatten") =>
        \A i \in DOMAIN submitted' :
            submitted'[i].status = "RAISE" =>
                /\ raised' = "none"
                /\ Untouched(submitted'[i].symbol)

\* C8: when the gateway raises on an order for a symbol, the TradeManager call
\* raises nothing to its caller, and the symbol's live-map entry and persisted
\* state are as before the call.
C8_GatewayExceptionSkips == [][C8_RaisingGateway]_vars

----------------------------------------------------------------------------
(* C9 *)

Mirrored ==
    /\ DOMAIN db_positions = DOMAIN positions
    /\ \A s \in DOMAIN positions :
           /\ db_positions[s].qty = positions[s].qty
           /\ db_positions[s].stop_px = positions[s].stop_px

\* C9: after every execute, manage_open_positions or flatten_all call that
\* returned normally, the positions table has a row for exactly the symbols of
\* the live map, with the live position's quantity and stop.
C9_RowsMirrorLiveMap ==
    call.op \in {"execute", "manage", "flatten"} /\ raised = "none" => Mirrored

----------------------------------------------------------------------------
(* C10 *)

Running == { job \in Jobs : jobs[job] # "idle" }

\* C10: in daemon mode at most one of the cycle_5m, cycle_15m and flatten jobs
\* is running at any time.
C10_JobsNeverOverlap == Cardinality(Running) <= 1

----------------------------------------------------------------------------
(* C11 *)

\* the filled entry BUYs of a symbol that no close has followed: that of its
\* live position and those a job's execute has not written yet
FilledBuys(s) ==
    (IF s \in DOMAIN positions THEN 1 ELSE 0)
    + Cardinality({ job \in Filling : locals[job][1].signal.symbol = s })

OpenEntries(s) ==
    { i \in DOMAIN trade_journal :
          trade_journal[i].symbol = s /\ ~trade_journal[i].closed }

\* C11: under every interleaving of the cycle_5m and cycle_15m jobs a symbol
\* has at most one filled entry BUY that no close has followed and at most one
\* open journal entry.
C11_OnePositionUnderInterleaving ==
    \A s \in Symbols : FilledBuys(s) <= 1 /\ Cardinality(OpenEntries(s)) <= 1

----------------------------------------------------------------------------
(* C12 *)

\* a closed journal row is never written again, and a row is inserted open
C12_NeverReopened ==
    /\ \A i \in DOMAIN trade_journal :
           /\ i \in DOMAIN trade_journal'
           /\ trade_journal[i].closed => trade_journal'[i] = trade_journal[i]
           /\ trade_journal'[i].updates <= 1
    /\ \A i \in DOMAIN trade_journal' \ DOMAIN trade_journal :
           ~trade_journal'[i].closed /\ trade_journal'[i].updates = 0

\* the step that takes a position out of the live map sets the close fields
\* of its journal row
C12_SetAtClose ==
    \A s \in DOMAIN positions :
        ~SameTrade(s) =>
            /\ trade_journal'[positions[s].trade_id].closed
            /\ trade_journal'[positions[s].trade_id].updates = 1
            /\ trade_journal'[positions[s].trade_id].reason_close # NullText
            /\ trade_journal'[positions[s].trade_id].exit_price # NULL

C12_ImmutableOnceClosed == [][C12_NeverReopened]_vars

\* C12: every journal row has its close fields set exactly once, in the step
\* that closes its position; a closed row is never written again, and a
\* re-entry of the symbol inserts a new open row.
C12_CloseFieldsSetOnce == [][C12_NeverReopened /\ C12_SetAtClose]_vars

----------------------------------------------------------------------------
(* C13 *)

\* the step has closed the symbol's position in full
ClosedInFull(s) ==
    LET was == positions[s]
        row == trade_journal'[was.trade_id]
    IN  /\ s \notin DOMAIN positions' /\ s \notin DOMAIN db_positions'
        /\ Cardinality(Submitted(s, "SELL")) = 1
        /\ \A i \in Submitted(s, "SELL") : submitted'[i].qty = was.qty
        /\ Cardinality(OrdersAdded(s)) = 1
        /\ \A i \in OrdersAdded(s) : orders'[i].side = "sell" /\ orders'[i].qty = was.qty
        /\ Cardinality(FillsAdded(s)) = 1
        /\ \A i \in FillsAdded(s) : fills'[i].fill_qty = was.qty
        /\ row.closed /\ row.qty = was.qty
        /\ row.pnl = Times(row.exit_price - was.avg_price, was.qty)

\* the same, for a close that is the symbol's first of the second
C13_FirstCloseOfTheSecond ==
    [][\A s \in DOMAIN positions :
           ~SameTrade(s) /\ <<s, "close">> \notin this_second => ClosedInFull(s)]_vars

\* C13: the step that closes a position submits one SELL for the quantity the
\* position has at that moment, records one Order and one Fill of that
\* quantity, closes the journal row with that quantity and pnl = (exit price -
\* average entry price) x quantity, deletes the positions row and removes the
\* symbol from the live map.
C13_CloseSellsAllAndClears ==
    [][\A s \in DOMAIN positions : ~SameTrade(s) => ClosedInFull(s)]_vars

----------------------------------------------------------------------------
(* C14 *)

\* the call had a feature row for the symbol
HadRow(s) == s \in DOMAIN call'.read /\ call'.read[s] # EmptyDict

\* the step has closed the symbol's position once, as a flatten, at the price
\* of its feature row
FlattenedAtRow(s) ==
    /\ ClosedInFull(s)
    /\ trade_journal'[positions[s].trade_id].reason_close = "flatten"
    /\ HadRow(s)
    /\ trade_journal'[positions[s].trade_id].exit_price = call'.read[s].c
    /\ \A i \in Submitted(s, "SELL") : submitted'[i].limit_price = call'.read[s].c
    /\ \A i \in FillsAdded(s) : fills'[i].fill_price = call'.read[s].c

\* the same, for a call that returned normally and had a row for every symbol
C14_WithRowsAndNoRaise ==
    [][Returns("flatten") /\ raised' = "none" /\ (\A s \in DOMAIN positions : HadRow(s)) =>
           /\ positions' = EmptyDict
           /\ \A s \in DOMAIN positions : FlattenedAtRow(s)]_vars

\* C14: a flatten_all call closes every symbol of the live map once, with one
\* SELL, one Order, one Fill and one journal close of reason "flatten", at the
\* symbol's latest price, and leaves the live map empty.
C14_FlattenClosesAllOnce ==
    [][Returns("flatten") =>
           /\ positions' = EmptyDict
           /\ \A s \in DOMAIN positions : FlattenedAtRow(s)]_vars

----------------------------------------------------------------------------
(* C15 *)

\* the call came to the symbol and had no feature row for it
HadNoRow(s) == s \in DOMAIN call'.read /\ call'.read[s] = EmptyDict

\* C15: a flatten_all call submits no SELL for a held symbol it has no feature
\* row for, records no Order or Fill for it, and leaves its position in the
\* live map, its positions row and its journal row as they were.
C15_FlattenSkipsRowless ==
    [][Returns("flatten") =>
           \A s \in DOMAIN positions :
               HadNoRow(s) => Submitted(s, "SELL") = {} /\ Untouched(s)]_vars

----------------------------------------------------------------------------
(* C16 *)

\* the call of this step is given, for every symbol it looks at, the row the
\* call before it was given
SameSnapshot ==
    \A s \in DOMAIN call'.read : s \in DOMAIN call.read /\ call'.read[s] = call.read[s]

C16_SecondManage ==
    call.op = "manage" /\ raised = "none" /\ Returns("manage") /\ SameSnapshot =>
        /\ positions' = positions
        /\ submitted' = <<>>
        /\ call'.writes = 0
        /\ db_positions' = db_positions /\ orders' = orders /\ fills' = fills
        /\ trade_journal' = trade_journal

\* C16: a manage_open_positions call that follows a manage_open_positions call
\* and is given the same feature snapshot changes no quantity, scaled flag,
\* stop or live-map membership, submits no order and writes nothing.
C16_ManageIdempotent == [][C16_SecondManage]_vars

----------------------------------------------------------------------------
(* C17 *)

\* the gateway has filled a BUY for the symbol in this step
BuyFilled(s) ==
    \E i \in Submitted(s, "BUY") : submitted'[i].status = "FILLED"

\* the call of this step looked at the held symbol at a price above its stop
\* (at or below it the stop-close comes first)
ManagedAboveStop(s) ==
    /\ Returns("manage") /\ s \in DOMAIN positions
    /\ HadRow(s) /\ call'.read[s].c > positions[s].stop_px

\* Flat -> Open: the entry fill leaves the symbol tracked with a quantity > 0
C17_Opens ==
    \A s \in Symbols :
        Returns("execute") /\ BuyFilled(s) /\ <<s, "entry">> \notin this_second =>
            /\ s \in DOMAIN positions' /\ ~positions'[s].scaled
            /\ positions'[s].qty.n > 0
            /\ ~trade_journal'[positions'[s].trade_id].closed

\* Open -> Scaled: at or above the scale target the position is marked scaled,
\* its quantity is halved and it stays tracked
C17_Scales ==
    \A s \in Symbols :
        /\ ManagedAboveStop(s) /\ ~positions[s].scaled
        /\ call'.read[s].c >= positions[s].scale_target
        => /\ SameTrade(s) /\ positions'[s].scaled
           /\ positions'[s].qty = Half(positions[s].qty)
           /\ ~trade_journal'[positions[s].trade_id].closed

\* Scaled -> Flat: at or above the final target the position leaves the live
\* map and its journal row is closed
C17_Closes ==
    \A s \in Symbols :
        /\ ManagedAboveStop(s) /\ positions[s].scaled
        /\ call'.read[s].c >= positions[s].final_target
        /\ <<s, "close">> \notin this_second
        => LET row == trade_journal'[positions[s].trade_id]
           IN  /\ s \notin DOMAIN positions' /\ s \notin DOMAIN db_positions'
               /\ row.closed /\ row.reason_close = "target hit"
               /\ row.exit_price > 0 /\ row.pnl.e >= 0 /\ row.pnl.n > 0

\* Flat: a manage call does nothing for a symbol that is not tracked
C17_FlatStays ==
    \A s \in Symbols \ DOMAIN positions :
        Returns("manage") =>
            Submitted(s, "SELL") = {} /\ Submitted(s, "BUY") = {} /\ Untouched(s)

\* C17: the lifecycle Flat -> Open -> Scaled -> Flat.  An entry fill leaves the
\* symbol tracked with a quantity > 0; a manage call that sees the open
\* position at or above its scale target (and above its stop) marks it scaled
\* and halves its quantity, keeping it tracked; a manage call that sees the
\* scaled position at or above its final target removes it from the live map
\* and closes its journal row with reason "target hit", an exit price > 0 and
\* a positive pnl; a manage call for a symbol that is not tracked is a no-op.
C17_Lifecycle == [][C17_Opens /\ C17_Scales /\ C17_Closes /\ C17_FlatStays]_vars

\* the scenario has run to its end: A, entered at 100 with 667 shares and
\* scaled out to 333.5, has been closed at its final target, and a further
\* manage call has found nothing to do
C17_Witness ==
    /\ call.op = "manage" /\ call.read = EmptyDict /\ submitted = <<>>
    /\ positions = EmptyDict
    /\ Len(trade_journal) = 1
    /\ trade_journal[1].symbol = "A" /\ trade_journal[1].closed
    /\ trade_journal[1].reason_close = "target hit"
    /\ trade_journal[1].qty = Half(Whole(667))
    /\ trade_journal[1].pnl.n > 0

----------------------------------------------------------------------------
(* C18 *)

\* the step raises nothing, submits nothing and writes nothing
NoOp ==
    /\ raised' = "none" /\ submitted' = <<>> /\ call'.writes = 0
    /\ positions' = positions /\ db_positions' = db_positions
    /\ orders' = orders /\ fills' = fills /\ trade_journal' = trade_journal

C18_CloseUntracked ==
    Returns("close") /\ DOMAIN call'.read \cap DOMAIN positions = {} => NoOp

C18_ReenterHeld ==
    /\ Returns("execute") /\ call'.read # EmptyDict
    /\ \A s \in DOMAIN call'.read :
           s \in DOMAIN positions /\ call'.read[s].decision = "enter_long"
    => NoOp

\* C18: _close_position for a symbol with no tracked position returns without
\* raising, submits no order, writes no Order, Fill or journal record and
\* deletes nothing; an execute call whose enter_long signals are all for
\* symbols already open returns without raising and without any write.
C18_DefensiveNoOps == [][C18_CloseUntracked /\ C18_ReenterHeld]_vars

\* _close_position has been called for A after A's position was closed, and
\* has returned without submitting anything
C18_Witness ==
    /\ call.op = "close" /\ DOMAIN call.read = {"A"}
    /\ "A" \notin DOMAIN positions
    /\ submitted = <<>> /\ raised = "none"
    /\ \E i \in DOMAIN trade_journal :
           trade_journal[i].symbol = "A" /\ trade_journal[i].closed

----------------------------------------------------------------------------
(* C19 *)

\* the symbols the cycle of this step evaluated with a sentiment gate of VETO
VetoGated ==
    { s \in Symbols : \E i \in DOMAIN cycle'.evaluated :
          cycle'.evaluated[i].symbol = s /\ cycle'.evaluated[i].gate = "VETO" }

\* the signals of a list for a symbol
SignalsOf(list, s) == { i \in DOMAIN list : list[i].symbol = s }

C19_VetoStep ==
    Returns("run_cycle") =>
        \A s \in VetoGated :
            /\ \A i \in SignalsOf(cycle'.evaluated, s) :
                   /\ cycle'.evaluated[i].score = 0
                   /\ cycle'.evaluated[i].decision = "skip_ai_veto"
            /\ \A i \in SignalsOf(cycle'.ranked, s) :
                   /\ cycle'.ranked[i].score = 0
                   /\ cycle'.ranked[i].decision = "skip_ai_veto"
            /\ Submitted(s, "BUY") = {}
            /\ EntriesAdded(s) = {}
            /\ s \notin DOMAIN positions => s \notin DOMAIN positions'

\* C19: a symbol whose sentiment gate is VETO gets a RankedSignal with final
\* score 0 and decision skip_ai_veto, whatever its rules, sentiment score and
\* context bias, and the execute call of the same cycle submits no BUY for it
\* and opens no position for it.
C19_VetoNeverEnters == [][C19_VetoStep]_vars

\* a cycle has ranked A, with passed rules worth 100 points and a VETO, first
\* in the list it handed to execute, A was not held, and nothing was bought
C19_Witness ==
    /\ call.op = "run_cycle" /\ raised = "none"
    /\ Len(cycle.ranked) = 1 /\ cycle.ranked[1].symbol = "A"
    /\ cycle.ranked[1].gate = "VETO" /\ cycle.ranked[1].base_score = 4 * rule_points
    /\ "A" \notin DOMAIN positions
    /\ submitted = <<>>

----------------------------------------------------------------------------
(* C20 *)

\* the symbols of a list of signals or records
SymbolsOf(list) == { list[i].symbol : i \in DOMAIN list }

\* the signals of a list that are not VETO-gated
Unvetoed(list) == { i \in DOMAIN list : list[i].gate # "VETO" }

\* every signal the cycle handed to execute has its audit record
C20_RankedAreWritten ==
    [][Returns("run_cycle") => SymbolsOf(cycle'.ranked) \subseteq SymbolsOf(cycle'.written)]_vars

C20_AuditStep ==
    Returns("run_cycle") =>
        /\ SymbolsOf(cycle'.written) = SymbolsOf(cycle'.evaluated)
        /\ Cardinality(Unvetoed(cycle'.ranked)) =
               IF Cardinality(Unvetoed(cycle'.evaluated)) < top_k_execute
               THEN Cardinality(Unvetoed(cycle'.evaluated)) ELSE top_k_execute

\* C20: a cycle writes a signal audit record for every symbol it evaluated,
\* VETO-gated and cut by the top-K truncation included, and the list handed
\* to execute holds top_k_execute signals that are not VETO-gated whenever
\* that many were evaluated.
C20_AuditBeforeTruncation == [][C20_AuditStep]_vars

----------------------------------------------------------------------------
(* C21 *)

\* the pure function op has returned
Applied(op) == call.op = op /\ result # <<>>

\* C21: rank_candidates returns signals it evaluated, one per symbol, in
\* non-increasing order of final score and truncated to top-K: the list has
\* min(K, number of symbols with a feature row) entries and no symbol left
\* out has a strictly higher final score than a returned one.
C21_SortedTopK ==
    Applied("rank_candidates") =>
        LET ranked == result[1].ranked
            evaluated == result[1].evaluated
            K == call.read.settings.top_k_execute
            n == Len(call.read.order)
        IN  /\ Len(ranked) = IF K < n THEN K ELSE n
            /\ \A i \in DOMAIN ranked : \E j \in DOMAIN evaluated : ranked[i] = evaluated[j]
            /\ \A i, j \in DOMAIN ranked : i < j =>
                   /\ ranked[i].score >= ranked[j].score
                   /\ ranked[i].symbol # ranked[j].symbol
            /\ \A j \in DOMAIN evaluated : \A i \in DOMAIN ranked :
                   evaluated[j].symbol \notin SymbolsOf(ranked) =>
                       evaluated[j].score <= ranked[i].score

\* three symbols were evaluated and two returned: the last of the feature map
\* first, with the highest score, and the one left out scored lower than both
C21_Witness ==
    /\ Applied("rank_candidates")
    /\ Len(call.read.order) = 3 /\ Len(result[1].ranked) = 2
    /\ result[1].ranked[1].symbol = call.read.order[3]
    /\ result[1].ranked[1].score > result[1].ranked[2].score
    /\ \E j \in DOMAIN result[1].evaluated :
           /\ result[1].evaluated[j].symbol \notin SymbolsOf(result[1].ranked)
           /\ result[1].evaluated[j].score < result[1].ranked[2].score

----------------------------------------------------------------------------
(* C22 *)

\* the sentiment rank_candidates was given for the j-th symbol of the feature
\* map: its score in tenths and its gate, neutral when the symbol has no result
GivenScore(j) ==
    LET symbol == call.read.order[j]
    IN  IF symbol \in DOMAIN call.read.sentiment THEN call.read.sentiment[symbol].score ELSE 0

GivenGate(j) ==
    LET symbol == call.read.order[j]
    IN  IF symbol \in DOMAIN call.read.sentiment THEN call.read.sentiment[symbol].gate
        ELSE "PASS"

\* C22: for every symbol whose gate is not VETO the final score is
\* max(base_score + ai_adjustment + context_bias, 0) with ai_adjustment the
\* sentiment score clamped to [-1, 1] times 30, so it is never negative, and
\* the decision is enter_long exactly when the final score is above 0 and
\* observe otherwise, under a SOFT_VETO gate as under PASS.
C22_FinalScore ==
    Applied("rank_candidates") =>
        \A j \in DOMAIN result[1].evaluated :
            LET signal == result[1].evaluated[j]
                x == GivenScore(j)
                sum == signal.base_score + signal.ai_adjustment + signal.context_bias
            IN  GivenGate(j) # "VETO" =>
                    /\ signal.ai_adjustment
                           = IF x < 0 - 10 THEN 0 - 30 ELSE IF x > 10 THEN 30 ELSE 3 * x
                    /\ signal.score = IF sum > 0 THEN sum ELSE 0
                    /\ signal.score >= 0
                    /\ signal.decision = IF signal.score > 0 THEN "enter_long" ELSE "observe"

\* one symbol under SOFT_VETO whose sum is negative is floored to 0 and
\* observed, another under SOFT_VETO enters with a positive score
C22_Witness ==
    /\ Applied("rank_candidates")
    /\ \E j \in DOMAIN result[1].evaluated :
           LET signal == result[1].evaluated[j]
           IN  /\ GivenGate(j) = "SOFT_VETO"
               /\ signal.base_score + signal.ai_adjustment + signal.context_bias < 0
               /\ signal.score = 0 /\ signal.decision = "observe"
    /\ \E j \in DOMAIN result[1].evaluated :
           /\ GivenScore(j) > 0
           /\ result[1].evaluated[j].score > 0
           /\ result[1].evaluated[j].decision = "enter_long"

----------------------------------------------------------------------------
(* C23 *)

C23_VetoAtThreshold ==
    /\ Applied("analyze")
    /\ call.read.score = 0 - 7 /\ ~call.read.ai_soft_veto
    /\ result[1].gate = "VETO"

\* a symbol without news ranked next to one with news
C23_NoNewsRanked ==
    /\ Applied("rank_candidates")
    /\ \E j \in DOMAIN result[1].evaluated :
           /\ call.read.order[j] \notin DOMAIN call.read.sentiment
           /\ result[1].evaluated[j].reasons[Len(result[1].evaluated[j].reasons)] = "no news"
    /\ DOMAIN call.read.sentiment # {}

----------------------------------------------------------------------------
(* C24 *)

\* the key is not in the row
Missing(row, key) == key \notin DOMAIN row

\* neither c nor close is in the row
MissingClose(row) == Missing(row, "c") /\ Missing(row, "close")

\* a (passed, reason) result: a boolean and a reason in words
IsRuleResult(res) ==
    /\ DOMAIN res = {"passed", "reason"}
    /\ res.passed \in BOOLEAN
    /\ res.reason # ""

\* C24: each of the four rules fails closed: for every row, whichever of
\* ema_fast, ema_slow, close, vwap, volume_spike, consolidation are missing,
\* it returns a (passed, reason) result, and a rule whose required input is
\* missing returns passed = false with a reason that names what is missing
\* (the VWAP rule requires vwap and close when enforcement is enabled).
C24_FailClosed ==
    Applied("rules") =>
        LET row == call.read.row
            res == result[1]
        IN  /\ IsRuleResult(res.ema_res) /\ IsRuleResult(res.vwap_res)
            /\ IsRuleResult(res.vol_res) /\ IsRuleResult(res.cons_res)
            /\ (Missing(row, "ema_fast") \/ Missing(row, "ema_slow") \/ MissingClose(row))
                   => res.ema_res = [passed |-> FALSE, reason |-> "missing EMA data"]
            /\ (call.read.settings.vwap_enforce /\ (Missing(row, "vwap") \/ MissingClose(row)))
                   => res.vwap_res = [passed |-> FALSE, reason |-> "vwap unavailable"]
            /\ Missing(row, "volume_spike")
                   => res.vol_res = [passed |-> FALSE, reason |-> "volume data missing"]
            /\ Missing(row, "consolidation")
                   => res.cons_res = [passed |-> FALSE, reason |-> "consolidation unknown"]

\* a row with nothing but consolidation: three rules fail for their missing
\* input and the fourth passes
C24_Witness ==
    /\ Applied("rules")
    /\ DOMAIN call.read.row = {"consolidation"}
    /\ call.read.settings.vwap_enforce
    /\ ~result[1].ema_res.passed /\ ~result[1].vwap_res.passed /\ ~result[1].vol_res.passed
    /\ result[1].cons_res.passed

\* an empty row fails the four rules
C24_EmptyRow ==
    /\ Applied("rules")
    /\ DOMAIN call.read.row = {}
    /\ call.read.settings.vwap_enforce
    /\ result[1].base_score = 0

----------------------------------------------------------------------------
(* C25 *)

\* C25: the VWAP rule passes when close >= VWAP and passes unconditionally
\* when enforcement is disabled or VWAP is unavailable, with enforcement
\* enabled too; it fails only when enforcement is enabled, VWAP is available
\* and close < VWAP.
C25_VwapRule ==
    Applied("rules") =>
        LET row == call.read.row
            close == CloseOf(row)
        IN  result[1].vwap_res.passed
                <=> ~(/\ call.read.settings.vwap_enforce
                      /\ ~Missing(row, "vwap")
                      /\ close # <<>>
                      /\ close[1] < row.vwap)

\* what vwap_ok does: with enforcement enabled it passes exactly when vwap and
\* close are there and close >= vwap; with enforcement disabled it passes
C25_VwapRuleAsCoded ==
    Applied("rules") =>
        LET row == call.read.row
            close == CloseOf(row)
        IN  result[1].vwap_res.passed
                <=> \/ ~call.read.settings.vwap_enforce
                    \/ (~Missing(row, "vwap") /\ close # <<>> /\ close[1] >= row.vwap)

\* enforcement enabled, the row of the rules' test without its vwap: the rule
\* fails with "vwap unavailable"
C25_FailsWithoutVwap ==
    /\ Applied("rules")
    /\ call.read.settings.vwap_enforce
    /\ call.read.row = [ema_fast |-> 12, ema_slow |-> 10, c |-> 13,
                        volume_spike |-> 30, consolidation |-> 1]
    /\ result[1].vwap_res = [passed |-> FALSE, reason |-> "vwap unavailable"]

----------------------------------------------------------------------------
(* C26 *)

\* the number of rules of a result that passed
Passing(res) ==
    Cardinality({ key \in {"ema_res", "vwap_res", "vol_res", "cons_res"} : res[key].passed })

\* the row with only ema_fast changed, to a value below ema_slow (the test
\* sets 8 against 10)
FastBelowSlow(row) == [row EXCEPT !.ema_fast = row.ema_slow - 2]

\* C26: the base score is exactly 25 points per passing rule, without partial
\* credit, so it is one of 0, 25, 50, 75, 100; and the rules are independent:
\* changing only ema_fast to below ema_slow makes the EMA rule fail and leaves
\* the results of the VWAP, volume and consolidation rules as they were.
C26_BaseScore ==
    Applied("rules") =>
        LET row == call.read.row
            settings == call.read.settings
            res == result[1]
        IN  /\ res.base_score = 25 * Passing(res)
            /\ res.base_score \in {0, 25, 50, 75, 100}
            /\ (~Missing(row, "ema_fast") /\ ~Missing(row, "ema_slow")) =>
                   /\ ~ema_cross_ok(FastBelowSlow(row)).passed
                   /\ vwap_ok(FastBelowSlow(row), settings.vwap_enforce) = res.vwap_res
                   /\ volume_ok(FastBelowSlow(row), settings.vol_spike_mult) = res.vol_res
                   /\ not_consolidating(FastBelowSlow(row), consolidation_x100) = res.cons_res

\* the row of the rules' test passes the four rules and scores 100; with
\* ema_fast at 8 its EMA rule fails
C26_Witness ==
    /\ Applied("rules")
    /\ call.read.settings.vwap_enforce
    /\ call.read.row = [ema_fast |-> 12, ema_slow |-> 10, c |-> 13, vwap |-> 12,
                        volume_spike |-> 30, consolidation |-> 1]
    /\ result[1].ema_res.passed /\ result[1].base_score = 100
    /\ FastBelowSlow(call.read.row).ema_fast = 8
    /\ ~ema_cross_ok(FastBelowSlow(call.read.row)).passed

\* the flipped row itself is evaluated: three rules pass, 75 points
C26_FlippedRow ==
    /\ Applied("rules")
    /\ call.read.settings.vwap_enforce
    /\ call.read.row = [ema_fast |-> 8, ema_slow |-> 10, c |-> 13, vwap |-> 12,
                        volume_spike |-> 30, consolidation |-> 1]
    /\ ~result[1].ema_res.passed /\ result[1].base_score = 75

----------------------------------------------------------------------------
(* C27 *)

\* the dollars at risk in a trade: equity x risk% / 100, in ticks
AtRisk == (account_equity \div 100) * risk_pct_per_trade * Dollar

\* what a _position_size call divided by: max(price - stop, 0.01)
PerShare(sized) ==
    IF sized.price - sized.stop_px > PriceFloor THEN sized.price - sized.stop_px
    ELSE PriceFloor

\* the quantity is the quotient rounded to a whole number: within half a share
Rounded(sized) ==
    LET off == sized.qty * PerShare(sized) - AtRisk
    IN  2 * (IF off < 0 THEN 0 - off ELSE off) <= PerShare(sized)

\* a _position_size call after another: the quantity is the rounded quotient
\* and is no larger than the earlier one when price - stop is no smaller
C27_Monotone ==
    (result # <<>> /\ result' # <<>>) =>
        /\ Rounded(result'[1])
        /\ result'[1].price - result'[1].stop_px >= result[1].price - result[1].stop_px
               => result'[1].qty <= result[1].qty

\* the entry execute priced for the symbol sizes to no share: the distance to
\* its stop is at least twice the dollars at risk
SizesToZero(s) ==
    /\ s \in DOMAIN call'.read /\ "c" \in DOMAIN call'.read[s]
    /\ LET price == call'.read[s].c
           distance == (call'.read[s].atr \div 100) * atr_mult_x100
           stop_px == IF price - distance > PriceFloor THEN price - distance ELSE PriceFloor
       IN  price - stop_px >= 2 * AtRisk

C27_NoTrade ==
    Returns("execute") =>
        \A s \in Symbols :
            SizesToZero(s) =>
                /\ Submitted(s, "BUY") = {}
                /\ s \notin DOMAIN positions /\ s \notin DOMAIN positions'
                /\ Untouched(s)

\* C27: for fixed equity and risk percentage the sized quantity
\* round((equity x risk% / 100) / max(price - stop, 0.01)) is non-increasing
\* as price - stop increases, and an entry whose quantity rounds to 0 or less
\* is no trade: no order is submitted and the symbol stays Flat.
C27_Sizing == [][C27_Monotone /\ C27_NoTrade]_vars

\* _position_size has returned 0 for a stop 2000 below the price (half a
\* share, rounded to even), and execute then priced an enter_long signal for A
\* at 5000 with its stop 3000 below, submitted nothing and left A Flat
C27_Witness ==
    /\ result # <<>> /\ result[1].qty = 0
    /\ result[1].price - result[1].stop_px = 2000 * Dollar
    /\ call.op = "execute" /\ "A" \in DOMAIN call.read
    /\ call.read["A"].decision = "enter_long"
    /\ "c" \in DOMAIN call.read["A"] /\ call.read["A"].c = 5000 * Dollar
    /\ submitted = <<>> /\ "A" \notin DOMAIN positions

\* the floor: a stop at or above the price sizes as one 0.01 below it
C27_FloorSized ==
    /\ result # <<>>
    /\ result[1].stop_px > result[1].price
    /\ result[1].qty = AtRisk \div PriceFloor

----------------------------------------------------------------------------
(* C28 *)

\* a cycle at the bar of the cycle before leaves every row of the table as it was
C28_Kept ==
    (Returns("run_cycle") /\ ~cycle'.fresh) =>
        \A s \in DOMAIN cycle.signals :
            /\ s \in DOMAIN cycle'.signals
            /\ cycle'.signals[s].final_score = cycle.signals[s].final_score
            /\ cycle'.signals[s].decision = cycle.signals[s].decision
            /\ cycle'.signals[s].reasons = cycle.signals[s].reasons

\* C28: signal audit records are append-only: a later cycle, such as one that
\* sees the same latest bar for the symbol and timeframe, adds records and
\* never changes the score, the decision or the reasons of a record already
\* written.
C28_AppendOnly == [][C28_Kept]_vars

\* what write_signals does: no row is deleted, and a row changes only when
\* the cycle writes a signal of its symbol at the same bar
C28_Upsert ==
    (Returns("run_cycle") /\ ~cycle'.fresh) =>
        \A s \in DOMAIN cycle.signals :
            /\ s \in DOMAIN cycle'.signals
            /\ s \notin SymbolsOf(cycle'.written) => cycle'.signals[s] = cycle.signals[s]

C28_UpsertOnly == [][C28_Upsert]_vars

----------------------------------------------------------------------------
(* C29 *)

\* C29: before feature computation the bar sequence of each symbol has
\* strictly increasing timestamps, whatever order the feed delivered the bars
\* in, and also when it delivered two bars of a symbol with the same timestamp.
C29_StrictlyIncreasing ==
    Applied("build_snapshot") =>
        \A s \in DOMAIN result[1] :
            \A i, j \in DOMAIN result[1][s] :
                i < j => result[1][s][i].ts < result[1][s][j].ts

\* what the sort gives: timestamps that never decrease, over every bar of the
\* symbol the feed delivered, none dropped
C29_NonDecreasing ==
    Applied("build_snapshot") =>
        \A s \in DOMAIN result[1] :
            /\ \A i, j \in DOMAIN result[1][s] :
                   i < j => result[1][s][i].ts <= result[1][s][j].ts
            /\ Len(result[1][s]) = Len(BarsOf(call.read.bars, s))

\* the feed delivered bars of A at 2, 1 and 2: the sequence is 1, 2, 2
C29_DuplicateKept ==
    /\ Applied("build_snapshot")
    /\ call.read.bars = <<[symbol |-> "A", ts |-> 2], [symbol |-> "A", ts |-> 1],
                          [symbol |-> "A", ts |-> 2]>>
    /\ result[1]["A"] = <<[symbol |-> "A", ts |-> 1], [symbol |-> "A", ts |-> 2],
                          [symbol |-> "A", ts |-> 2]>>

----------------------------------------------------------------------------
(* C30 *)

\* the symbol had no bar in the cycle of this step: build_snapshot made no
\* feature row for it, so rank_candidates evaluated no signal for it
NoBars(s) == s \notin SymbolsOf(cycle'.evaluated)

\* the gateway calls of the step for a symbol
Sent(s) == Submitted(s, "BUY") \cup Submitted(s, "SELL")

C30_Omitted ==
    Returns("run_cycle") =>
        \A s \in Symbols :
            NoBars(s) =>
                /\ s \notin SymbolsOf(cycle'.ranked) /\ s \notin SymbolsOf(cycle'.written)
                /\ Sent(s) = {}
                /\ Untouched(s)
                /\ raised' # "none" => \E t \in SymbolsOf(cycle'.evaluated) : Sent(t) # {}

C30_SnapshotOmits ==
    Applied("build_snapshot") =>
        \A s \in Symbols : s \in DOMAIN result[1] <=> BarsOf(call.read.bars, s) # <<>>

----------------------------------------------------------------------------
(* C31 *)

\* the place of a symbol in ascending order of symbols
Ascending(symbol) == CHOOSE i \in 1 .. 3 : <<"A", "B", "C">>[i] = symbol

\* the place of a symbol in the iteration order of the feature map of the call
Iterated(symbol) == CHOOSE i \in DOMAIN call.read.order : call.read.order[i] = symbol

\* C31: ranking is deterministic under ties: symbols with equal final score
\* are ordered by symbol ascending, in the returned list and at the top-K cut,
\* so the list is the same whatever the iteration order of the feature map.
C31_TiesBySymbol ==
    Applied("rank_candidates") =>
        LET ranked == result[1].ranked
            evaluated == result[1].evaluated
        IN  /\ \A i, j \in DOMAIN ranked :
                   (i < j /\ ranked[i].score = ranked[j].score)
                       => Ascending(ranked[i].symbol) < Ascending(ranked[j].symbol)
            /\ \A j \in DOMAIN evaluated : \A i \in DOMAIN ranked :
                   (/\ evaluated[j].symbol \notin SymbolsOf(ranked)
                    /\ evaluated[j].score = ranked[i].score)
                       => Ascending(ranked[i].symbol) < Ascending(evaluated[j].symbol)

\* what the sort does: signals of equal score stay in the iteration order of
\* the feature map, in the returned list and at the cut
C31_TiesByIteration ==
    Applied("rank_candidates") =>
        LET ranked == result[1].ranked
            evaluated == result[1].evaluated
        IN  /\ \A i, j \in DOMAIN ranked :
                   (i < j /\ ranked[i].score = ranked[j].score)
                       => Iterated(ranked[i].symbol) < Iterated(ranked[j].symbol)
            /\ \A j \in DOMAIN evaluated : \A i \in DOMAIN ranked :
                   (/\ evaluated[j].symbol \notin SymbolsOf(ranked)
                    /\ evaluated[j].score = ranked[i].score)
                       => Iterated(ranked[i].symbol) < Iterated(evaluated[j].symbol)

\* B before A in the feature map, both scoring 100, top-K 1: B is returned
C31_CutByIteration ==
    /\ Applied("rank_candidates")
    /\ call.read.order = <<"B", "A">> /\ call.read.settings.top_k_execute = 1
    /\ result[1].evaluated[1].score = 100 /\ result[1].evaluated[2].score = 100
    /\ SymbolsOf(result[1].ranked) = {"B"}

----------------------------------------------------------------------------
(* C32 *)

\* open = high = low = close is one constant over the series
Flat(bars) ==
    \A i \in DOMAIN bars : bars[i].h = bars[1].c /\ bars[i].l = bars[1].c /\ bars[i].c = bars[1].c

\* C32: atr returns no negative value, for any bar sequence and any period
\* >= 1, at a first bar (which has no previous close) as at the others, and
\* for a flat series the ATR is 0 at every bar after the first.
C32_AtrNeverNegative ==
    Applied("atr") =>
        LET bars == call.read.bars
            values == result[1]
        IN  /\ Len(values) = Len(bars)
            /\ \A i \in DOMAIN values : values[i].d > 0 /\ values[i].n >= 0
            /\ Flat(bars) => \A i \in DOMAIN values : i > 1 => values[i].n = 0

\* a flat series of three bars at 10, period 2: the ATR is 0 at each bar
C32_Witness ==
    /\ Applied("atr")
    /\ Len(call.read.bars) = 3 /\ Flat(call.read.bars) /\ call.read.bars[1].c = 10
    /\ call.read.period = 2
    /\ \A i \in 1 .. 3 : result[1][i] = [n |-> 0, d |-> IF i = 1 THEN 1 ELSE 2]

\* a bar at 9 after a close at 12: its true range is the distance to the
\* previous close, 3, and the ATR over the two bars 3 / 2
C32_GapDown ==
    /\ Applied("atr")
    /\ call.read.bars = <<[h |-> 12, l |-> 12, c |-> 12], [h |-> 9, l |-> 9, c |-> 9]>>
    /\ call.read.period = 3
    /\ result[1] = <<[n |-> 0, d |-> 1], [n |-> 3, d |-> 2]>>

----------------------------------------------------------------------------
(* C33 *)

\* the items of the call are Catalyst records
OfCatalysts == \A i \in DOMAIN call.read.news_items : call.read.news_items[i] \in Catalysts

\* the text of an item, in title or in headline
TextOf(item) == IF "title" \in DOMAIN item THEN item.title ELSE item.headline

\* the symbols that have news, and those whose news hold words of one lexicon only
WithNews == { call.read.news_items[i].symbol : i \in DOMAIN call.read.news_items }

OnlyPositive(s) ==
    \A i \in DOMAIN call.read.news_items :
        call.read.news_items[i].symbol = s =>
            TextOf(call.read.news_items[i]).pos > 0 /\ TextOf(call.read.news_items[i]).neg = 0

OnlyNegative(s) ==
    \A i \in DOMAIN call.read.news_items :
        call.read.news_items[i].symbol = s =>
            TextOf(call.read.news_items[i]).neg > 0 /\ TextOf(call.read.news_items[i]).pos = 0

\* C33: analyze over a batch of Catalyst records returns one SentimentResult
\* per symbol that has news, with a score above 0 for headlines of positive
\* words only and below 0 for headlines of negative words only, and with
\* sentiment enabled it persists one provenance record per such symbol.
C33_OnePerSymbol ==
    (Applied("analyze_news") /\ OfCatalysts) =>
        LET done == result[1]
        IN  /\ done.raised = "none"
            /\ DOMAIN done.results = WithNews
            /\ call.read.ai_sentiment_enabled =>
                   /\ \A s \in WithNews : OnlyPositive(s) => done.results[s].score.n > 0
                   /\ \A s \in WithNews : OnlyNegative(s) => done.results[s].score.n < 0
                   /\ \A s \in WithNews :
                          Cardinality({ i \in DOMAIN done.provenance :
                                            done.provenance[i].symbol = s }) = 1
                   /\ Len(done.provenance) = Cardinality(WithNews)

\* what analyze does: with sentiment enabled it raises on any news, on a
\* Catalyst for its missing headline and else at the INSERT, and has persisted
\* nothing; with sentiment disabled it returns a neutral result per symbol
\* with news and persists nothing
C33_AnalyzeAsCoded ==
    Applied("analyze_news") =>
        LET done == result[1]
        IN  /\ done.provenance = <<>>
            /\ (call.read.ai_sentiment_enabled /\ WithNews # {}) =>
                   /\ done.raised \in {"AttributeError", "OperationalError"}
                   /\ OfCatalysts => done.raised = "AttributeError"
            /\ (~call.read.ai_sentiment_enabled \/ WithNews = {}) =>
                   /\ done.raised = "none"
                   /\ DOMAIN done.results = WithNews
                   /\ \A s \in WithNews : done.results[s].score.n = 0
                                          /\ done.results[s].gate = "PASS"

\* the batch of test_sentiment_heuristic_scores, sentiment enabled: analyze
\* has raised AttributeError and inserted nothing
C33_TestBatchRaises ==
    /\ Applied("analyze_news") /\ call.read.ai_sentiment_enabled
    /\ call.read.news_items = <<[symbol |-> "A", title |-> [pos |-> 3, neg |-> 0]],
                                [symbol |-> "B", title |-> [pos |-> 0, neg |-> 2]]>>
    /\ result[1].raised = "AttributeError" /\ result[1].provenance = <<>>

----------------------------------------------------------------------------
(* C34 *)

\* the job passes a listed item, and the symbol it is about
Passes(job) == jobs[job] = "managing" /\ locals'[job] # locals[job]

PassedSymbol(job) == Head(locals[job]).symbol

\* the pass sold or wrote the position row
Touches(s) ==
    \/ \E i \in DOMAIN submitted' : submitted'[i].symbol = s
    \/ s \in DOMAIN db_positions' /\ (s \notin DOMAIN db_positions
                                        \/ db_positions'[s] # db_positions[s])
    \/ call'.writes > 0

\* C34: when a flatten sweep interleaves with a running manage_open_positions,
\* manage never submits a SELL for, nor upserts the persisted row of, a symbol
\* the sweep has already popped from the live map and deleted.
C34_NeverTouchedAfterClose ==
    [][\A job \in Jobs :
           (Passes(job) /\ PassedSymbol(job) \notin DOMAIN positions)
               => ~Touches(PassedSymbol(job))]_vars

\* both calls have finished, the symbol is flat, its flatten close is
\* journalled, and manage has sold half of it and written its row back
C34_RowWithoutPosition ==
    /\ \A job \in Jobs : jobs[job] = "idle"
    /\ call.op = "manage" /\ raised = "none"
    /\ "A" \notin DOMAIN positions /\ "A" \in DOMAIN db_positions
    /\ \E i \in DOMAIN trade_journal :
           trade_journal[i].symbol = "A" /\ trade_journal[i].reason_close = "flatten"
    /\ \A i \in DOMAIN trade_journal : trade_journal[i].closed
    /\ submitted # <<>> /\ submitted[1].symbol = "A" /\ submitted[1].side = "SELL"

----------------------------------------------------------------------------
(* C35 *)

\* a new TradeManager has been made, and no call on it yet
Constructed == call.op = "init"

\* C35: a new TradeManager over the store of a process that stopped with
\* open positions tracks every symbol with a persisted Position row as open.
C35_TracksPersistedRows ==
    Constructed => \A s \in DOMAIN db_positions : s \in DOMAIN positions

\* what __init__ does: the new TradeManager tracks nothing, whatever the store holds
C35_StartsEmpty == Constructed => positions = EmptyDict

\* after a restart execute has entered the symbol again: it has two open
\* journal entries, and the map tracks the second one only
C35_EnteredAgain ==
    /\ call.op = "execute" /\ "A" \in DOMAIN positions
    /\ Cardinality(OpenEntries("A")) = 2
    /\ positions["A"].trade_id = 2

\* a flatten after a restart has left the row and the open entry of the
\* symbol as they were
C35_NeverClosed ==
    /\ call.op = "flatten" /\ positions = EmptyDict /\ submitted = <<>>
    /\ "A" \in DOMAIN db_positions /\ OpenEntries("A") # {}

----------------------------------------------------------------------------
(* C36 *)

\* the position of the symbol names an open journal entry of the symbol
NamesOpenEntry(book, journal, s) ==
    /\ book[s].trade_id \in DOMAIN journal
    /\ journal[book[s].trade_id].symbol = s
    /\ ~journal[book[s].trade_id].closed

\* the open journal entry belongs to the position of its symbol
BelongsToPosition(book, journal, i) ==
    /\ journal[i].symbol \in DOMAIN book
    /\ book[journal[i].symbol].trade_id = i

Corresponds(book, journal) ==
    /\ \A s \in DOMAIN book : NamesOpenEntry(book, journal, s) /\ book[s].qty.n > 0
    /\ \A i \in DOMAIN journal : ~journal[i].closed => BelongsToPosition(book, journal, i)

\* C36: after every completed TradeManager operation the open journal entries
\* and the live positions are in one-to-one correspondence, and every live
\* position has a quantity > 0.
C36_OpenEntriesMatchPositions ==
    (call.op # "init" /\ raised = "none") => Corresponds(positions, trade_journal)

\* an operation that returns normally keeps the correspondence
C36_KeptByNormalReturns ==
    [][(Corresponds(positions, trade_journal) /\ raised' = "none")
           => Corresponds(positions', trade_journal')]_vars

\* every live position names an open entry and has a quantity > 0, always
C36_PositionsHaveOpenEntries ==
    \A s \in DOMAIN positions :
        NamesOpenEntry(positions, trade_journal, s) /\ positions[s].qty.n > 0

\* a close has raised on its order id after the pop: the entry of A is open
\* and A is not in the live map
C36_OpenEntryWithoutPosition ==
    /\ raised = "IntegrityError" /\ call.op \in {"manage", "flatten"}
    /\ "A" \notin DOMAIN positions /\ OpenEntries("A") # {}

\* and it stays so after the calls that follow and return normally
C36_OpenEntryLeftBehind ==
    /\ raised = "none" /\ call.op = "manage"
    /\ "A" \notin DOMAIN positions /\ OpenEntries("A") # {}

----------------------------------------------------------------------------
(* C37 *)

\* the rows the step has added to a table
Added(table_after, table_before) == Len(table_after) - Len(table_before)

\* the orders of the step that left their position open: the scale-out SELLs
ScaleOutSells ==
    { i \in DOMAIN submitted' :
          submitted'[i].side = "SELL" /\ submitted'[i].symbol \in DOMAIN positions' }

\* a TradeManager call has returned normally
Completed ==
    /\ \E op \in {"execute", "manage", "flatten"} : Returns(op)
    /\ raised' = "none"

\* C37: each order submitted to the Order Gateway, entry BUY, scale-out SELL
\* or closing SELL, has exactly one Order row and one Fill row, so that the
\* recorded SELL fills of a closed trade add up to its recorded BUY fill.
C37_OneOrderOneFill ==
    [][Completed =>
           /\ Added(orders', orders) = Len(submitted')
           /\ Added(fills', fills) = Len(submitted')]_vars

\* what the code records: one Order row and one Fill row for each order but
\* the scale-out SELLs, which get neither
C37_AllButScaleOuts ==
    [][Completed =>
           /\ Added(orders', orders) = Len(submitted') - Cardinality(ScaleOutSells)
           /\ Added(fills', fills) = Len(submitted') - Cardinality(ScaleOutSells)]_vars

\* the trade of A is closed after a scale-out: 667 shares bought, and the
\* only SELL fill on record is that of the 333.5 sold at the close
C37_HalfUnaccounted ==
    /\ Len(trade_journal) = 1 /\ trade_journal[1].closed
    /\ positions = EmptyDict
    /\ Len(orders) = 2 /\ Len(fills) = 2
    /\ orders[1].side = "buy" /\ fills[1].fill_qty = Whole(667)
    /\ orders[2].side = "sell" /\ fills[2].fill_qty = Half(Whole(667))

----------------------------------------------------------------------------
(* C38 *)

\* the Order row the step wrote for the entry of the symbol
EntryOrder(s) == CHOOSE i \in OrdersAdded(s) : orders'[i].side = "buy"

\* the position of journal entry i, opened by the execute of this step, is as
\* execute made it, but for its stop
AsOpened(i) ==
    LET s == trade_journal'[i].symbol
    IN  /\ ~trade_journal'[i].closed
        /\ s \in DOMAIN positions' /\ positions'[s].trade_id = i
        /\ ~positions'[s].scaled
        /\ positions'[s].qty = trade_journal'[i].qty
        /\ positions'[s].qty = orders'[EntryOrder(s)].qty
        /\ Submitted(s, "SELL") = {}

\* its stop is the one of the entry, or the snapshot's slow EMA above it
StopTrailedAtMost(i) ==
    LET s == trade_journal'[i].symbol
        stop_px == orders'[EntryOrder(s)].stop_price
    IN  \/ positions'[s].stop_px = stop_px
        \/ /\ HadRow(s) /\ call'.read[s].ema_slow > stop_px
           /\ positions'[s].stop_px = call'.read[s].ema_slow

\* C38: within one run_cycle a position opened by execute is neither closed
\* nor scaled by the manage_open_positions call of the same cycle, which sees
\* the same feature snapshot; the only change manage may make to it is a
\* trail raise of its stop.
C38_NewPositionOnlyTrailed ==
    [][Returns("trade") =>
           \A i \in DOMAIN trade_journal' \ DOMAIN trade_journal :
               AsOpened(i) /\ StopTrailedAtMost(i)]_vars

\* a cycle has opened A at 100 and its manage call has trailed the stop from
\* 98.5 to the slow EMA of 99
C38_Witness ==
    /\ call.op = "trade" /\ raised = "none"
    /\ trade_ids # <<>> /\ trade_journal[trade_ids[1]].symbol = "A"
    /\ "A" \in DOMAIN positions /\ positions["A"].trade_id = trade_ids[1]
    /\ call.read["A"].c = 100 * Dollar
    /\ positions["A"].stop_px = 99 * Dollar
    /\ ~positions["A"].scaled /\ positions["A"].qty = Whole(667)

\* a cycle has opened A and its manage call has left the stop of the entry
C38_Untrailed ==
    /\ call.op = "trade" /\ raised = "none"
    /\ trade_ids # <<>> /\ trade_journal[trade_ids[1]].symbol = "A"
    /\ "A" \in DOMAIN positions /\ positions["A"].trade_id = trade_ids[1]
    /\ positions["A"].stop_px = EntryStop(call.read["A"].c, 1 * Dollar)

----------------------------------------------------------------------------
(* C39 *)

\* the manage call of this step had a row for the symbol and left it open
LeftOpen(s) ==
    /\ Returns("manage") /\ raised' = "none"
    /\ SameTrade(s) /\ HadRow(s)

\* C39: after a manage_open_positions call that leaves a position open, the
\* stop of the position is strictly below the price the call saw for the
\* symbol, after a scale-out and after a trail raise alike.
C39_StopBelowPrice ==
    [][\A s \in Symbols : LeftOpen(s) => positions'[s].stop_px < call'.read[s].c]_vars

\* what the code keeps: the stop never goes down, and it is below the price
\* unless the slow EMA of the row is at or above the price
C39_StopBelowPriceOrEma ==
    [][\A s \in Symbols :
           LeftOpen(s) =>
               /\ positions'[s].stop_px >= positions[s].stop_px
               /\ \/ positions'[s].stop_px < call'.read[s].c
                  \/ /\ call'.read[s].ema_slow >= call'.read[s].c
                     /\ positions'[s].stop_px = call'.read[s].ema_slow]_vars

\* a manage call has seen A at 100 with a slow EMA of 109 and has trailed the
\* stop to 109, above the price
C39_TrailedAbovePrice ==
    /\ call.op = "manage" /\ raised = "none"
    /\ "A" \in DOMAIN positions /\ "A" \in DOMAIN call.read /\ call.read["A"] # EmptyDict
    /\ call.read["A"].c = 100 * Dollar /\ call.read["A"].ema_slow = 109 * Dollar
    /\ ~positions["A"].scaled /\ positions["A"].stop_px = 109 * Dollar

\* a manage call has seen A at 105 with a slow EMA of 109 and has scaled it
\* out with the stop at 109
C39_ScaledAbovePrice ==
    /\ call.op = "manage" /\ raised = "none"
    /\ "A" \in DOMAIN positions /\ "A" \in DOMAIN call.read /\ call.read["A"] # EmptyDict
    /\ call.read["A"].c = 105 * Dollar /\ call.read["A"].ema_slow = 109 * Dollar
    /\ positions["A"].scaled /\ positions["A"].stop_px = 109 * Dollar

====
